---------------------------- MODULE Spec2Model ----------------------------
(***************************************************************************)
(* Slide Audio Recorder (osok/recorder).                                   *)
(*                                                                         *)
(* The model has two layers.                                               *)
(*  - The storage layer: src/src/config.py and src/src/file_manager.py.    *)
(*    The output directory is a map from file names to file contents; a    *)
(*    file name is the sequence of its characters, so that the naming      *)
(*    pattern, the glob and the parse of the slide number are computed as  *)
(*    the code computes them.                                              *)
(*  - The controller layer: src/src/main.py driving the capture engine of  *)
(*    src/src/audio_recorder.py and the stop-key listener of               *)
(*    src/src/cli_interface.py.                                            *)
(* Three specifications: SpecFM (the storage calls on their own),          *)
(* SpecEngine (the engine's methods on their own) and Spec (the program).  *)
(***************************************************************************)
EXTENDS Integers, Sequences, FiniteSets, TLC

VARIABLES
    \* --- storage (file_manager.py, config.py)
    dir,            \* the output directory: [set of file names -> file content]
    last,           \* SpecFM: the latest storage call and what it returned
    \* --- capture engine (AudioRecorder)
    recording,      \* self.recording
    stream,         \* self.stream: "None" or the open input stream
    frames,         \* self.frames
    start_time,     \* self.start_time
    pyaudio,        \* self.pyaudio: "None" or a device handle
    \* --- environment of the engine
    clock,          \* time.time(), in seconds since the epoch of the model
    devNext,        \* the number of the next chunk the input device delivers
    unclosed,       \* whether the audio library still holds an open stream
                    \* (input or output) that the engine no longer refers to
    \* --- terminal (CLIInterface)
    cli_recording,  \* cli.recording, the flag shared with the stop-key listener
    hooks,          \* enable_keyboard_hooks: whether the listener is registered
    \* --- environment of the encoder
    encoder_ok,     \* whether pydub's export works in this run (ffmpeg is there)
    \* --- controller (SlideRecorder): position and locals
    pc,             \* where the controller is
    slide,          \* slide_number of revisit_recording / record_slide
    caller,         \* who called record_slide: "run" or "revisit"
    clip,           \* record_slide's audio_data
    duration,       \* record_slide's duration
    rs_result,      \* what record_slide returns, until the caller has taken it
    \* --- observation of the running record_slide call
    attempt_dir,    \* the directory as it was when record_slide was entered
    played,         \* whether the current clip was played back
    discarded,      \* the chunks of the clips discarded by Rerecord so far
    answer,         \* the answer to "delete this recording", while it matters
    eng_last,       \* SpecEngine: the latest engine call and what it returned
    \* --- the process (main, SpecMain): top level, release, interrupt
    main_pc,        \* where main() is
    cl_pc,          \* where the running AudioRecorder.cleanup call is
    is_cleaning_up, \* self._is_cleaning_up
    terminations,   \* terminate() calls made so far on the handle self.pyaudio
    interrupts,     \* the SIGINT signals delivered so far
    exit_status,    \* the status the process exits with, "none" until decided
    run_end,        \* how app.run() ended: "exit", "failure" or "none"
    \* --- configuration (config.py, SpecConfig)
    BITRATE,        \* config.BITRATE
    audio_quality,  \* the audio_quality of the latest SlideRecorder(), or "none"
    encoded_at,     \* the bitrate the latest export was given, or "none"
    encoded,        \* whether an export ran since the latest SlideRecorder()
    \* --- audio devices (SpecDevices)
    devices,        \* maxInputChannels of the devices, in device-index order
    device_list,    \* what the latest get_input_devices() returned
    \* --- the output directory itself (SpecDir)
    dir_present     \* whether config.DEFAULT_OUTPUT_DIR exists

fmVars == <<dir, last>>

engVars == <<recording, stream, frames, start_time, pyaudio>>

envVars == <<clock, devNext, unclosed, encoder_ok>>

cliVars == <<cli_recording, hooks>>

ctlVars == <<pc, slide, caller, clip, duration, rs_result>>

obsVars == <<attempt_dir, played, discarded, answer, eng_last>>

mainVars == <<main_pc, cl_pc, is_cleaning_up, terminations, interrupts,
              exit_status, run_end>>

cfgVars == <<BITRATE, audio_quality, encoded_at, encoded>>

devVars == <<devices, device_list>>

procVars == <<mainVars, cfgVars, devVars, dir_present>>

vars == <<dir, last, recording, stream, frames, start_time, pyaudio, clock,
          devNext, unclosed, encoder_ok, cli_recording, hooks, pc, slide,
          caller, clip, duration, rs_result, attempt_dir, played, discarded,
          answer, eng_last, main_pc, cl_pc, is_cleaning_up, terminations,
          interrupts, exit_status, run_end, BITRATE, audio_quality, encoded_at,
          encoded, devices, device_list, dir_present>>

(***************************************************************************)
(* Bounds of the model.                                                    *)
(***************************************************************************)
\* Slide numbers used as arguments are 1..MaxSlide.
MaxSlide == 2

\* A run of the program records the slides 1..MaxSessionSlide.
MaxSessionSlide == 1

\* The input device delivers the chunks 1..MaxReads, each once.
MaxReads == 2

(***************************************************************************)
(* Program constants (config.py).                                          *)
(***************************************************************************)
MAX_RECORDING_TIME == 300

MIN_RECORDING_TIME == 1

SlideNumbers == 1 .. MaxSlide

(***************************************************************************)
(* Audio blobs.  A blob is what stop_recording returns (a WAV envelope     *)
(* around the joined frames, or b'' ), or what convert_to_mp3 returns.     *)
(***************************************************************************)
EmptyBlob == [fmt |-> "empty", data |-> <<>>]

WavBlob(chunks) == [fmt |-> "wav", data |-> chunks]

Mp3Blob(chunks) == [fmt |-> "mp3", data |-> chunks]

\* A byte string that is not a WAV file, such as the tests' b'test audio data'.
RawBlob(bytes) == [fmt |-> "raw", data |-> bytes]

\* Faulty variant of convert_to_mp3: nothing is returned when the encoder
\* fails.
convert_to_mp3_EmptyOnFailure(wav_data, encoderOk) ==
    IF wav_data.fmt = "wav" /\ encoderOk
    THEN Mp3Blob(wav_data.data)
    ELSE EmptyBlob

\* convert_to_mp3: the encoder's result, or the input unchanged when decoding
\* the input as WAV or the export raises (encoderOk = FALSE: no ffmpeg, ...).
convert_to_mp3(wav_data, encoderOk) ==
    IF wav_data.fmt = "wav" /\ encoderOk
    THEN Mp3Blob(wav_data.data)
    ELSE wav_data

(***************************************************************************)
(* File names: config.FILENAME_PATTERN and the backup name.                *)
(***************************************************************************)
DigitChars == <<"0", "1", "2", "3", "4", "5", "6", "7", "8", "9">>

RECURSIVE Decimal(_)
\* str(n) for n >= 0
Decimal(n) ==
    IF n < 10 THEN <<DigitChars[n + 1]>>
    ELSE Decimal(n \div 10) \o <<DigitChars[(n % 10) + 1]>>

RECURSIVE ZeroPad(_, _)
ZeroPad(s, width) == IF Len(s) >= width THEN s ELSE ZeroPad(<<"0">> \o s, width)

\* '{:03d}'.format(n)
Format03d(n) == ZeroPad(Decimal(n), 3)

SlidePrefix == <<"s", "l", "i", "d", "e", "_">>

Mp3Suffix == <<".", "m", "p", "3">>

BackupInfix == <<"_", "b", "a", "c", "k", "u", "p">>

\* config.get_recording_path: FILENAME_PATTERN.format(slide_number), as a
\* name inside DEFAULT_OUTPUT_DIR.
get_recording_path(slide_number) ==
    SlidePrefix \o Format03d(slide_number) \o Mp3Suffix

\* source_path.with_name(f"slide_{slide_number:03d}_backup.mp3")
backup_path(slide_number) ==
    SlidePrefix \o Format03d(slide_number) \o BackupInfix \o Mp3Suffix

(***************************************************************************)
(* Scanning the directory: glob('slide_*.mp3') and                         *)
(* int(f.stem.split('_')[1]).                                              *)
(***************************************************************************)
StartsWith(s, p) == Len(s) >= Len(p) /\ SubSeq(s, 1, Len(p)) = p

EndsWith(s, p) == Len(s) >= Len(p) /\ SubSeq(s, Len(s) - Len(p) + 1, Len(s)) = p

\* fnmatch of a name against 'slide_*.mp3': the prefix, anything, the suffix.
GlobMatch(name) ==
    /\ Len(name) >= Len(SlidePrefix) + Len(Mp3Suffix)
    /\ StartsWith(name, SlidePrefix)
    /\ EndsWith(name, Mp3Suffix)

\* Path.stem: the name without its last suffix (from the last ".").
Stem(name) ==
    LET dots == {i \in 1 .. Len(name) : name[i] = "."}
    IN  IF dots = {} THEN name
        ELSE LET d == CHOOSE i \in dots : \A j \in dots : j <= i
             IN  IF d = 1 THEN name ELSE SubSeq(name, 1, d - 1)

\* s.split('_')[1]: the field between the first and the second "_" (or the
\* end).  Every name that GlobMatch accepts holds a "_".
SplitField1(s) ==
    LET us    == {i \in 1 .. Len(s) : s[i] = "_"}
        first == CHOOSE i \in us : \A j \in us : i <= j
        rest  == {i \in us : i > first}
        stop  == IF rest = {} THEN Len(s) + 1
                 ELSE CHOOSE i \in rest : \A j \in rest : i <= j
    IN  SubSeq(s, first + 1, stop - 1)

DigitValue(c) == CHOOSE d \in 0 .. 9 : DigitChars[d + 1] = c

RECURSIVE ParseInt(_)
\* int(s) of a digit string (leading zeros allowed)
ParseInt(s) ==
    IF Len(s) = 0 THEN 0
    ELSE 10 * ParseInt(SubSeq(s, 1, Len(s) - 1)) + DigitValue(s[Len(s)])

\* int(f.stem.split('_')[1])
SlideNumberOf(name) == ParseInt(SplitField1(Stem(name)))

\* DEFAULT_OUTPUT_DIR.glob('slide_*.mp3')
GlobFiles(d) == {name \in DOMAIN d : GlobMatch(name)}

RECURSIVE SortedNumbers(_)
\* sorted([int(f.stem.split('_')[1]) for f in files]): one entry per file
SortedNumbers(files) ==
    IF files = {} THEN <<>>
    ELSE LET f == CHOOSE x \in files :
                      \A y \in files : SlideNumberOf(x) <= SlideNumberOf(y)
         IN  <<SlideNumberOf(f)>> \o SortedNumbers(files \ {f})

\* FileManager.get_recording_list
get_recording_list(d) == SortedNumbers(GlobFiles(d))

\* `slide_number in recordings` (main.py, run)
InRecordings(x, recordings) == \E i \in 1 .. Len(recordings) : recordings[i] = x

\* FileManager.recording_exists
recording_exists(d, slide_number) == get_recording_path(slide_number) \in DOMAIN d

\* Faulty variant of get_next_slide_number: only the names of recordings
\* are counted, a backup's name is passed over.
get_next_slide_number_RecordingsOnly(d) ==
    LET existing_files == {f \in GlobFiles(d) :
                               f = get_recording_path(SlideNumberOf(f))}
        numbers == {SlideNumberOf(f) : f \in existing_files}
    IN  IF existing_files = {} THEN 1
        ELSE (CHOOSE m \in numbers : \A k \in numbers : k <= m) + 1

\* config.get_next_slide_number (FileManager.get_next_slide_number delegates)
get_next_slide_number(d) ==
    LET existing_files == GlobFiles(d)
        numbers == {SlideNumberOf(f) : f \in existing_files}
    IN  IF existing_files = {} THEN 1
        ELSE (CHOOSE m \in numbers : \A k \in numbers : k <= m) + 1

(***************************************************************************)
(* Directory updates.                                                      *)
(***************************************************************************)
\* open(path, 'wb').write(content) / shutil.copy2: create or replace
WriteFile(d, name, content) ==
    [f \in (DOMAIN d) \cup {name} |-> IF f = name THEN content ELSE d[f]]

\* os.remove of a present file
RemoveFile(d, name) == [f \in (DOMAIN d) \ {name} |-> d[f]]

\* The marker for "no file of that name" (observation only).
NoFile == [fmt |-> "absent", data |-> <<>>]

\* The content of a name, or NoFile (observation only).
ContentOf(d, name) == IF name \in DOMAIN d THEN d[name] ELSE NoFile

\* What a storage call returned, as a value of one type: a path, None, or
\* delete's boolean.
NoneValue == <<"None">>

RetBool(b) == IF b THEN <<"True">> ELSE <<"False">>

\* The audio argument of a call that takes none (observation only).
NoArg == [fmt |-> "none", data |-> <<>>]

(***************************************************************************)
(* FileManager's operations, as functions of the directory d: each gives   *)
(* the directory after the call (.dir) and what the call returns (.ret).   *)
(***************************************************************************)
\* Faulty variant of save_recording: the WAV data is written as it came,
\* without the conversion.
save_recording_Unencoded(d, audio_data, slide_number, encoderOk) ==
    LET output_path == get_recording_path(slide_number)
    IN  [dir |-> WriteFile(d, output_path, audio_data), ret |-> output_path]

\* FileManager.save_recording
save_recording(d, audio_data, slide_number, encoderOk) ==
    LET mp3_data    == convert_to_mp3(audio_data, encoderOk)
        output_path == get_recording_path(slide_number)
    IN  [dir |-> WriteFile(d, output_path, mp3_data), ret |-> output_path]

\* Faulty variant of delete_recording: a missing file is ignored and the
\* call reports success all the same.
delete_recording_AlwaysTrue(d, slide_number) ==
    LET file_path == get_recording_path(slide_number)
    IN  [dir |-> RemoveFile(d, file_path), ret |-> RetBool(TRUE)]

\* Faulty variant of delete_recording: the backup of the slide is removed
\* with the recording.
delete_recording_WithBackup(d, slide_number) ==
    LET file_path == get_recording_path(slide_number)
    IN  IF file_path \in DOMAIN d
        THEN [dir |-> RemoveFile(RemoveFile(d, file_path),
                                 backup_path(slide_number)),
              ret |-> RetBool(TRUE)]
        ELSE [dir |-> d, ret |-> RetBool(FALSE)]

\* FileManager.delete_recording
delete_recording(d, slide_number) ==
    LET file_path == get_recording_path(slide_number)
    IN  IF file_path \in DOMAIN d
        THEN [dir |-> RemoveFile(d, file_path), ret |-> RetBool(TRUE)]
        ELSE \* FileNotFoundError is caught
             [dir |-> d, ret |-> RetBool(FALSE)]

\* Faulty variant of backup_recording: the recording is moved, not copied.
backup_recording_Move(d, slide_number) ==
    LET source_path == get_recording_path(slide_number)
        target_path == backup_path(slide_number)
    IN  IF source_path \notin DOMAIN d
        THEN [dir |-> d, ret |-> NoneValue]
        ELSE [dir |-> RemoveFile(WriteFile(d, target_path, d[source_path]),
                                 source_path),
              ret |-> target_path]

\* Faulty variant of backup_recording: the backup file is opened for writing
\* before the source is looked at, so a missing source leaves an empty backup.
backup_recording_Unchecked(d, slide_number) ==
    LET source_path == get_recording_path(slide_number)
        target_path == backup_path(slide_number)
    IN  IF source_path \notin DOMAIN d
        THEN [dir |-> WriteFile(d, target_path, EmptyBlob), ret |-> NoneValue]
        ELSE [dir |-> WriteFile(d, target_path, d[source_path]),
              ret |-> target_path]

\* FileManager.backup_recording
backup_recording(d, slide_number) ==
    LET source_path == get_recording_path(slide_number)
        target_path == backup_path(slide_number)
    IN  IF source_path \notin DOMAIN d
        THEN [dir |-> d, ret |-> NoneValue]
        ELSE [dir |-> WriteFile(d, target_path, d[source_path]),
              ret |-> target_path]

(***************************************************************************)
(* The storage layer on its own: any sequence of save, delete and backup   *)
(* calls on an output directory that starts empty.                         *)
(***************************************************************************)
\* The audio data handed to save_recording: a WAV clip and a byte string that
\* is no WAV file (as in the tests).
SaveInputs == {WavBlob(<<1>>), RawBlob(<<1>>)}

EmptyDir == [f \in {} |-> NoFile]

NoCall == [op |-> "none", n |-> 0, arg |-> NoArg, enc |-> FALSE,
           ret |-> NoneValue, pre |-> NoFile]

\* No engine call yet (observation only); pre is the engine as constructed.
NoEngineCall ==
    [op |-> "none", arg |-> "none", ret |-> FALSE, data |-> NoArg, dur |-> 0,
     pre |-> [recording |-> FALSE, stream |-> "None", frames |-> <<>>,
              start_time |-> 0, pyaudio |-> "PyAudio", clock |-> 0,
              devNext |-> 1, unclosed |-> FALSE]]

\* The state right after SlideRecorder.__init__ (FileManager, AudioRecorder
\* and CLIInterface constructed), but for hooks.
InitCommon ==
    /\ dir = EmptyDir
    /\ last = NoCall
    /\ recording = FALSE
    /\ stream = "None"
    /\ frames = <<>>
    /\ start_time = 0
    /\ pyaudio = "PyAudio"
    /\ clock = 0
    /\ devNext = 1
    /\ unclosed = FALSE
    /\ cli_recording = FALSE
    /\ pc = "main_menu"
    /\ slide = 0
    /\ caller = "none"
    /\ clip = EmptyBlob
    /\ duration = 0
    /\ rs_result = "none"
    /\ attempt_dir = EmptyDir
    /\ played = FALSE
    /\ discarded = {}
    /\ answer = "none"
    /\ eng_last = NoEngineCall

\* No get_input_devices call yet (observation only).
NoDeviceCall == [called |-> FALSE, raised |-> FALSE, ret |-> <<>>]

\* The process right after SlideRecorder.__init__, about to call app.run():
\* nothing is being released, the handle is fresh, no signal has come.
InitProcess ==
    /\ main_pc = "run"
    /\ cl_pc = "none"
    /\ is_cleaning_up = FALSE
    /\ terminations = 0
    /\ interrupts = 0
    /\ exit_status = "none"
    /\ run_end = "none"

\* The configuration after SlideRecorder.__init__ with the default quality.
InitConfigured ==
    /\ BITRATE = "128k"
    /\ audio_quality = "high"
    /\ encoded_at = "none"
    /\ encoded = FALSE

\* No device is looked at.
InitNoDevices ==
    /\ devices = <<>>
    /\ device_list = NoDeviceCall

\* The parts of the state that the storage calls, the engine calls and the
\* controller leave as they are.
InitProc ==
    /\ InitProcess
    /\ InitConfigured
    /\ InitNoDevices
    /\ dir_present = TRUE

InitFM ==
    /\ InitCommon
    /\ InitProc
    /\ hooks = TRUE
    /\ encoder_ok = TRUE

NotFM == <<engVars, envVars, cliVars, ctlVars, obsVars, procVars>>

\* A call of save_recording; last.pre is the content the written path held
\* before the call.
Save ==
    /\ \E a \in SaveInputs, n \in SlideNumbers, ok \in BOOLEAN :
           LET r == save_recording(dir, a, n, ok)
           IN  /\ dir' = r.dir
               /\ last' = [op |-> "save", n |-> n, arg |-> a, enc |-> ok,
                           ret |-> r.ret,
                           pre |-> ContentOf(dir, get_recording_path(n))]
    /\ UNCHANGED NotFM

\* A call of delete_recording
Delete ==
    /\ \E n \in SlideNumbers :
           LET r == delete_recording(dir, n)
           IN  /\ dir' = r.dir
               /\ last' = [op |-> "delete", n |-> n, arg |-> NoArg,
                           enc |-> FALSE, ret |-> r.ret,
                           pre |-> ContentOf(dir, get_recording_path(n))]
    /\ UNCHANGED NotFM

\* A call of backup_recording; last.pre is the content the backup path held
\* before the call.
Backup ==
    /\ \E n \in SlideNumbers :
           LET r == backup_recording(dir, n)
           IN  /\ dir' = r.dir
               /\ last' = [op |-> "backup", n |-> n, arg |-> NoArg,
                           enc |-> FALSE, ret |-> r.ret,
                           pre |-> ContentOf(dir, backup_path(n))]
    /\ UNCHANGED NotFM

NextFM == Save \/ Delete \/ Backup

SpecFM == InitFM /\ [][NextFM]_vars


(***************************************************************************)
(* The capture engine (AudioRecorder).  Each operation sets the engine's   *)
(* five fields; an input of the operation says how its calls into the      *)
(* audio library end.                                                      *)
(***************************************************************************)
EngineSet(rec, st, fr, t0, pa) ==
    /\ recording' = rec
    /\ stream' = st
    /\ frames' = fr
    /\ start_time' = t0
    /\ pyaudio' = pa

\* How start_recording can end: normally, with _initialize_pyaudio raising,
\* or with pyaudio.open raising.
StartOutcomes == {"ok", "init_fails", "open_fails"}

\* Whether start_recording raises to its caller.
StartRaises(outcome) == ~recording /\ outcome # "ok"

\* Time is counted from the start of the running session: the engine reads
\* the clock in start_recording, and after that only while self.recording
\* holds and only as clock - start_time.  RebaseClock puts the model's epoch
\* at the present moment.
RebaseClock == clock' = 0

\* pyaudio.terminate(), called by _initialize_pyaudio and by cleanup when
\* there is a handle, closes every stream the library still holds (a stream
\* is only ever opened under a handle).
terminate_unclosed == IF pyaudio # "None" THEN FALSE ELSE unclosed

\* Faulty variant of start_recording: a running session is not looked at,
\* and the call starts over.
start_recording_Restarts(outcome) ==
    /\ RebaseClock
    /\ unclosed' = terminate_unclosed
    /\ IF outcome = "init_fails"
       THEN EngineSet(recording, "None", frames, start_time, "None")
       ELSE IF outcome = "open_fails"
       THEN EngineSet(recording, "None", <<>>, start_time, "None")
       ELSE EngineSet(TRUE, "input", <<>>, clock', "PyAudio")

\* Faulty variant of start_recording: the frame buffer is not reset.
start_recording_KeepsFrames(outcome) ==
    IF recording THEN UNCHANGED <<engVars, clock, unclosed>>
    ELSE /\ RebaseClock
         /\ unclosed' = terminate_unclosed
         /\ IF outcome = "init_fails"
            THEN EngineSet(recording, "None", frames, start_time, "None")
            ELSE IF outcome = "open_fails"
            THEN EngineSet(recording, "None", frames, start_time, "None")
            ELSE EngineSet(TRUE, "input", frames, clock', "PyAudio")

\* Faulty variant of start_recording: a failure is raised without the
\* cleanup call.
start_recording_NoCleanup(outcome) ==
    IF recording THEN UNCHANGED <<engVars, clock, unclosed>>
    ELSE /\ RebaseClock
         /\ unclosed' = terminate_unclosed
         /\ IF outcome = "init_fails"
            THEN EngineSet(recording, "None", frames, start_time, "None")
            ELSE IF outcome = "open_fails"
            THEN EngineSet(recording, "None", <<>>, start_time, "PyAudio")
            ELSE EngineSet(TRUE, "input", <<>>, clock', "PyAudio")

\* AudioRecorder.start_recording (with _initialize_pyaudio, and cleanup on
\* the failure paths): the engine, the library's streams and the clock after
\* the call
start_recording(outcome) ==
    IF recording THEN UNCHANGED <<engVars, clock, unclosed>>
    ELSE /\ RebaseClock
         /\ unclosed' = terminate_unclosed
         /\ IF outcome = "init_fails"
            THEN \* _initialize_pyaudio: self.pyaudio = None; raise; cleanup()
                 EngineSet(recording, "None", frames, start_time, "None")
            ELSE IF outcome = "open_fails"
            THEN \* frames = []; open raises; cleanup() terminates the handle
                 EngineSet(recording, "None", <<>>, start_time, "None")
            ELSE \* self.start_time = time.time()
                 EngineSet(TRUE, "input", <<>>, clock', "PyAudio")

\* Faulty variant of record_chunk's result: a session of exactly the maximum
\* recording time is ended.
record_chunk_result_Strict(readOk) ==
    /\ recording
    /\ stream # "None"
    /\ readOk
    /\ clock - start_time < MAX_RECORDING_TIME

\* Faulty variant of record_chunk's result: the maximum recording time is
\* not looked at.
record_chunk_result_NoCap(readOk) ==
    /\ recording
    /\ stream # "None"
    /\ readOk

\* What record_chunk returns.
record_chunk_result(readOk) ==
    /\ recording
    /\ stream # "None"
    /\ readOk
    /\ clock - start_time <= MAX_RECORDING_TIME

\* Faulty variant of record_chunk: a failed read is reported and nothing is
\* torn down.
record_chunk_NoTeardown(readOk) ==
    IF ~recording \/ stream = "None"
    THEN UNCHANGED <<engVars, devNext, unclosed>>
    ELSE IF ~readOk
    THEN UNCHANGED <<engVars, devNext, unclosed>>
    ELSE /\ EngineSet(recording, stream, Append(frames, devNext), start_time, pyaudio)
         /\ devNext' = devNext + 1
         /\ UNCHANGED unclosed

\* Faulty variant of record_chunk: the read is made whatever the state of the
\* engine.
record_chunk_Unguarded(readOk) ==
    IF ~readOk
    THEN /\ EngineSet(recording, "None", frames, start_time, "None")
         /\ unclosed' = terminate_unclosed
         /\ UNCHANGED devNext
    ELSE /\ EngineSet(recording, stream, Append(frames, devNext), start_time, pyaudio)
         /\ devNext' = devNext + 1
         /\ UNCHANGED unclosed

\* AudioRecorder.record_chunk: the engine, the library's streams and the
\* device after the call
record_chunk(readOk) ==
    IF ~recording \/ stream = "None"
    THEN UNCHANGED <<engVars, devNext, unclosed>>
    ELSE IF ~readOk
    THEN \* stream.read raises: cleanup()
         /\ EngineSet(recording, "None", frames, start_time, "None")
         /\ unclosed' = terminate_unclosed
         /\ UNCHANGED devNext
    ELSE /\ EngineSet(recording, stream, Append(frames, devNext), start_time, pyaudio)
         /\ devNext' = devNext + 1
         /\ UNCHANGED unclosed

\* Faulty variant of stop_succeeds: the early return of an engine that is
\* not recording is left out.
stop_succeeds_Unguarded(stopOk) ==
    /\ (stream # "None" => stopOk)
    /\ pyaudio # "None"

\* Faulty variant of stop_succeeds: the WAV header is written without asking
\* the library handle for the sample size.
stop_succeeds_NoHandle(stopOk) ==
    /\ recording
    /\ (stream # "None" => stopOk)

\* Whether stop_recording reaches its normal return: it was recording, the
\* stream (if any) stopped and closed, and the handle is there for
\* get_sample_size.
stop_succeeds(stopOk) ==
    /\ recording
    /\ (stream # "None" => stopOk)
    /\ pyaudio # "None"

\* The audio data stop_recording returns.
stop_recording_data(stopOk) ==
    IF stop_succeeds(stopOk) THEN WavBlob(frames) ELSE EmptyBlob

\* The duration stop_recording returns.
stop_recording_duration(stopOk) ==
    IF stop_succeeds(stopOk) THEN clock - start_time ELSE 0

\* Faulty variant of stop_recording: the stream reference is kept.
stop_recording_KeepsStream(stopOk, closeOk) ==
    IF ~recording THEN UNCHANGED <<engVars, clock, unclosed>>
    ELSE /\ EngineSet(FALSE, stream, frames, start_time, pyaudio)
         /\ RebaseClock
         /\ UNCHANGED unclosed

\* Faulty variant of stop_recording: the frame buffer is emptied.
stop_recording_ClearsFrames(stopOk, closeOk) ==
    IF ~recording THEN UNCHANGED <<engVars, clock, unclosed>>
    ELSE /\ EngineSet(FALSE, "None", <<>>, start_time, pyaudio)
         /\ RebaseClock
         /\ unclosed' = IF stream # "None" /\ ~stopOk /\ ~closeOk
                        THEN TRUE ELSE unclosed

\* AudioRecorder.stop_recording: the engine, the library's streams and the
\* clock after the call (the session is over: the clock is no longer
\* followed).  stopOk: stop_stream() and close() in the body go through;
\* closeOk: after they did not, _cleanup_stream gets as far as close() and
\* close() goes through (it does not when is_active() or stop_stream()
\* raises there, or close() raises again).  The reference is dropped in
\* either case.
stop_recording(stopOk, closeOk) ==
    IF ~recording THEN UNCHANGED <<engVars, clock, unclosed>>
    ELSE /\ EngineSet(FALSE, "None", frames, start_time, pyaudio)
         /\ RebaseClock
         /\ unclosed' = IF stream # "None" /\ ~stopOk /\ ~closeOk
                        THEN TRUE ELSE unclosed

\* AudioRecorder.play_recording: whether the output stream is opened.  The
\* handle must have been rebuilt and wave.open must accept the data.
play_opens(audio_data, initOk) == initOk /\ audio_data.fmt = "wav"

\* AudioRecorder.play_recording: the engine after the call.  The handle is
\* rebuilt first (initOk: whether that works); the output stream is a local
\* of the method, stopped and closed after the last write (outOk: whether
\* every call on it before close succeeds); the finally block handles
\* self.stream only.
play_recording(audio_data, initOk, outOk) ==
    /\ EngineSet(recording, "None", frames, start_time,
                 IF initOk THEN "PyAudio" ELSE "None")
    /\ unclosed' = IF play_opens(audio_data, initOk) /\ ~outOk
                   THEN TRUE ELSE terminate_unclosed

\* AudioRecorder.cleanup
cleanup ==
    /\ EngineSet(recording, "None", frames, start_time, "None")
    /\ unclosed' = terminate_unclosed

(***************************************************************************)
(* The environment: the clock and the stop key.                            *)
(***************************************************************************)
\* The clock readings the model tells apart, in seconds since the session's
\* start: below the minimum duration, the minimum, the maximum, and beyond it.
TimePoints == {0, MIN_RECORDING_TIME, MAX_RECORDING_TIME, MAX_RECORDING_TIME + 1}

\* Time passes during a session, by any amount.
Tick ==
    /\ recording
    /\ \E t \in TimePoints :
           /\ t > clock
           /\ clock' = t
    /\ UNCHANGED <<fmVars, engVars, devNext, unclosed, encoder_ok, cliVars,
                   ctlVars, obsVars, procVars>>

\* Faulty variant of space_key_callback: the listener is there whether or
\* not the hooks were enabled.
space_key_callback_Unhooked ==
    /\ cli_recording
    /\ cli_recording' = FALSE
    /\ UNCHANGED <<fmVars, engVars, envVars, hooks, ctlVars, obsVars,
                   procVars>>

\* CLIInterface._space_key_callback, run by the keyboard listener on a press
\* of the stop key at any moment; the listener is registered only when the
\* hooks are enabled (__init__).  waiting_for_start is never set, so only
\* the elif branch acts: it reads the flag and clears it when it is set.
space_key_callback ==
    /\ hooks
    /\ cli_recording
    /\ cli_recording' = FALSE
    /\ UNCHANGED <<fmVars, engVars, envVars, hooks, ctlVars, obsVars,
                   procVars>>

\* The presses of the stop key followed in the whole program: the flag is
\* read by the capture loop only, and display_recording_status sets it
\* before every loop, so these are the presses between the two.
SpaceKey ==
    /\ pc \in {"rs_start", "rs_test", "rs_chunk"}
    /\ space_key_callback

(***************************************************************************)
(* The capture engine on its own: any sequence of calls of its methods,    *)
(* as the unit tests make them.  eng_last keeps the latest call: its name, *)
(* how its calls into the audio library ended (arg), what it returned      *)
(* (ret: record_chunk's value, whether start_recording returned without    *)
(* raising, whether stop_recording reached its normal return; data and dur *)
(* are stop_recording's pair) and the engine as it was before the call.    *)
(***************************************************************************)
EngineState ==
    [recording |-> recording, stream |-> stream, frames |-> frames,
     start_time |-> start_time, pyaudio |-> pyaudio, clock |-> clock,
     devNext |-> devNext, unclosed |-> unclosed]

EngineCall(op, arg, ret, data, dur) ==
    [op |-> op, arg |-> arg, ret |-> ret, data |-> data, dur |-> dur,
     pre |-> EngineState]

NotEngine ==
    <<fmVars, encoder_ok, cliVars, ctlVars, attempt_dir, played, discarded,
      answer, procVars>>

InitEngine ==
    /\ InitCommon
    /\ InitProc
    /\ hooks = TRUE
    /\ encoder_ok = TRUE

\* A call of start_recording
EngStart ==
    /\ \E outcome \in StartOutcomes :
           /\ start_recording(outcome)
           /\ eng_last' = EngineCall("start", outcome, ~StartRaises(outcome),
                                     NoArg, 0)
    /\ UNCHANGED <<NotEngine, devNext>>

\* A call of record_chunk
EngChunk ==
    /\ \E readOk \in BOOLEAN :
           /\ (readOk /\ recording /\ stream # "None") => devNext <= MaxReads
           /\ record_chunk(readOk)
           /\ eng_last' = EngineCall("chunk",
                                     IF readOk THEN "read_ok" ELSE "read_fails",
                                     record_chunk_result(readOk), NoArg, 0)
    /\ UNCHANGED <<NotEngine, clock>>

\* A call of stop_recording
EngStop ==
    /\ \E stopOk \in BOOLEAN, closeOk \in BOOLEAN :
           /\ stop_recording(stopOk, closeOk)
           /\ eng_last' = EngineCall("stop",
                                     IF stopOk THEN "stop_ok"
                                     ELSE IF closeOk THEN "stop_fails_closed"
                                     ELSE "stop_fails",
                                     stop_succeeds(stopOk),
                                     stop_recording_data(stopOk),
                                     stop_recording_duration(stopOk))
    /\ UNCHANGED <<NotEngine, devNext>>

\* The data handed to play_recording: a clip as stop_recording builds it, an
\* encoded clip as a stored file holds it, and the empty result of a failed
\* stop
PlayInputs == {WavBlob(<<1>>), Mp3Blob(<<1>>), EmptyBlob}

\* A call of play_recording
EngPlay ==
    /\ \E audio_data \in PlayInputs, initOk, outOk \in BOOLEAN :
           /\ play_recording(audio_data, initOk, outOk)
           /\ eng_last' = EngineCall("play",
                                     IF ~initOk THEN "init_fails"
                                     ELSE IF outOk THEN "init_ok"
                                     ELSE "output_fails",
                                     TRUE, audio_data, 0)
    /\ UNCHANGED <<NotEngine, clock, devNext>>

\* A call of cleanup
EngCleanup ==
    /\ cleanup
    /\ eng_last' = EngineCall("cleanup", "none", TRUE, NoArg, 0)
    /\ UNCHANGED <<NotEngine, clock, devNext>>

NextEngine == EngStart \/ EngChunk \/ EngStop \/ EngPlay \/ EngCleanup \/ Tick

SpecEngine == InitEngine /\ [][NextEngine]_vars

(***************************************************************************)
(* The controller (SlideRecorder).  pc is the place in main.py:            *)
(*   main_menu  run: display_main_menu                          (l. 140)   *)
(*   rv_menu    revisit_recording: display_revisit_options      (l. 111)   *)
(*   rs_status  record_slide: display_recording_status          (l. 67)    *)
(*   rs_start   record_slide: start_recording                   (l. 70)    *)
(*   rs_test    the capture loop reads cli.recording            (l. 73)    *)
(*   rs_chunk   the capture loop calls record_chunk             (l. 73)    *)
(*   rs_stop    record_slide: stop_recording                    (l. 77)    *)
(*   rs_short   the error is shown, confirm_action("try again") (l. 82)    *)
(*   rs_post    display_post_recording_options                  (l. 88)    *)
(*   rs_return  record_slide has returned rs_result                        *)
(*   exited     run ended by Exit: exit status 0                           *)
(*   failed     an exception reached main: exit status 1                   *)
(***************************************************************************)
ChunksOf(blob) == {blob.data[i] : i \in 1 .. Len(blob.data)}

\* Entering record_slide(n) from `who`.
EnterRecordSlide(n, who) ==
    /\ pc' = "rs_status"
    /\ slide' = n
    /\ caller' = who
    /\ attempt_dir' = dir'
    /\ played' = FALSE
    /\ answer' = "none"
    /\ UNCHANGED <<clip, duration, rs_result, discarded, eng_last, procVars>>

\* run, choice "1": record the next slide
MenuRecordNext ==
    /\ pc = "main_menu"
    /\ LET next_slide == get_next_slide_number(dir)
       IN  /\ next_slide <= MaxSessionSlide
           /\ UNCHANGED fmVars
           /\ EnterRecordSlide(next_slide, "run")
    /\ UNCHANGED <<engVars, envVars, cliVars>>

\* run, choice "2": a slide number of the recording list is entered (any
\* other answer, or an empty list, leads back to the menu with no change)
MenuRevisit ==
    /\ pc = "main_menu"
    /\ LET recordings == get_recording_list(dir)
       IN  \E choice \in SlideNumbers :
               /\ InRecordings(choice, recordings)
               /\ slide' = choice
    /\ pc' = "rv_menu"
    /\ answer' = "none"
    /\ UNCHANGED <<fmVars, engVars, envVars, cliVars, caller, clip, duration,
                   rs_result, attempt_dir, played, discarded, eng_last,
                   procVars>>

\* run, choice "3": leave the loop, cleanup
MenuExit ==
    /\ pc = "main_menu"
    /\ cleanup
    /\ pc' = "exited"
    /\ UNCHANGED <<fmVars, clock, devNext, encoder_ok, cliVars, slide, caller,
                   clip, duration, rs_result, obsVars, procVars>>

\* revisit_recording, choice 'b'
RvBack ==
    /\ pc = "rv_menu"
    /\ pc' = "main_menu"
    /\ slide' = 0
    /\ answer' = "none"
    /\ UNCHANGED <<fmVars, engVars, envVars, cliVars, caller, clip, duration,
                   rs_result, attempt_dir, played, discarded, eng_last,
                   procVars>>

\* revisit_recording, choice 'p': read the file and play it
RvPlayback ==
    /\ pc = "rv_menu"
    /\ IF recording_exists(dir, slide)
       THEN /\ \E initOk, outOk \in BOOLEAN :
                   play_recording(ContentOf(dir, get_recording_path(slide)),
                                  initOk, outOk)
            /\ pc' = "rv_menu"
       ELSE \* open raises FileNotFoundError, caught in main: cleanup, exit 1
            /\ cleanup
            /\ pc' = "failed"
    /\ answer' = "none"
    /\ UNCHANGED <<fmVars, clock, devNext, encoder_ok, cliVars, slide, caller,
                   clip, duration, rs_result, attempt_dir, played, discarded,
                   eng_last, procVars>>

\* Faulty variant of RvRerecord: record_slide is entered without the backup.
RvRerecord_NoBackup ==
    /\ pc = "rv_menu"
    /\ UNCHANGED fmVars
    /\ EnterRecordSlide(slide, "revisit")
    /\ UNCHANGED <<engVars, envVars, cliVars>>

\* revisit_recording, choice 'r': backup, then record_slide
RvRerecord ==
    /\ pc = "rv_menu"
    /\ dir' = backup_recording(dir, slide).dir
    /\ UNCHANGED last
    /\ EnterRecordSlide(slide, "revisit")
    /\ UNCHANGED <<engVars, envVars, cliVars>>

\* Faulty variant of RvDelete: the answer to the confirmation is not looked
\* at.
RvDelete_Unconfirmed ==
    /\ pc = "rv_menu"
    /\ \E confirmed \in BOOLEAN :
           /\ dir' = delete_recording(dir, slide).dir
           /\ UNCHANGED last
           /\ pc' = "main_menu"
           /\ slide' = 0
           /\ answer' = IF confirmed THEN "yes" ELSE "no"
    /\ UNCHANGED <<engVars, envVars, cliVars, caller, clip, duration,
                   rs_result, attempt_dir, played, discarded, eng_last,
                   procVars>>

\* revisit_recording, choice 'd': delete when confirmed
RvDelete ==
    /\ pc = "rv_menu"
    /\ \E confirmed \in BOOLEAN :
           IF confirmed
           THEN /\ dir' = delete_recording(dir, slide).dir
                /\ UNCHANGED last
                /\ pc' = "main_menu"
                /\ slide' = 0
                /\ answer' = "yes"
           ELSE /\ UNCHANGED <<fmVars, pc, slide>>
                /\ answer' = "no"
    /\ UNCHANGED <<engVars, envVars, cliVars, caller, clip, duration,
                   rs_result, attempt_dir, played, discarded, eng_last,
                   procVars>>

\* Faulty variant of RsStatus: the status is shown and the flag is left as
\* it was.
RsStatus_KeepsFlag ==
    /\ pc = "rs_status"
    /\ pc' = "rs_start"
    /\ UNCHANGED <<fmVars, engVars, envVars, cliVars, slide, caller, clip,
                   duration, rs_result, obsVars, procVars>>

\* record_slide: display_recording_status sets cli.recording
RsStatus ==
    /\ pc = "rs_status"
    /\ cli_recording' = TRUE
    /\ pc' = "rs_start"
    /\ UNCHANGED <<fmVars, engVars, envVars, hooks, slide, caller, clip,
                   duration, rs_result, obsVars, procVars>>

\* record_slide: start_recording; an exception goes up to main
RsStart ==
    /\ pc = "rs_start"
    /\ \E outcome \in StartOutcomes :
           /\ start_recording(outcome)
           /\ pc' = IF StartRaises(outcome) THEN "failed" ELSE "rs_test"
    /\ UNCHANGED <<fmVars, devNext, encoder_ok, cliVars, slide, caller, clip,
                   duration, rs_result, obsVars, procVars>>

\* Faulty variant of RsTest: the loop does not look at the flag.
RsTest_IgnoresFlag ==
    /\ pc = "rs_test"
    /\ pc' = "rs_chunk"
    /\ UNCHANGED <<fmVars, engVars, envVars, cliVars, slide, caller, clip,
                   duration, rs_result, obsVars, procVars>>

\* the capture loop's condition, left operand: cli.recording
RsTest ==
    /\ pc = "rs_test"
    /\ pc' = IF cli_recording THEN "rs_chunk" ELSE "rs_stop"
    /\ UNCHANGED <<fmVars, engVars, envVars, cliVars, slide, caller, clip,
                   duration, rs_result, obsVars, procVars>>

\* the capture loop's condition, right operand: record_chunk()
RsChunk ==
    /\ pc = "rs_chunk"
    /\ \E readOk \in BOOLEAN :
           /\ (readOk /\ recording /\ stream # "None") => devNext <= MaxReads
           /\ record_chunk(readOk)
           /\ pc' = IF record_chunk_result(readOk) THEN "rs_test" ELSE "rs_stop"
    /\ UNCHANGED <<fmVars, clock, encoder_ok, cliVars, slide, caller, clip,
                   duration, rs_result, obsVars, procVars>>

\* record_slide: stop_recording and the minimum-duration check
RsStop ==
    /\ pc = "rs_stop"
    /\ \E stopOk \in BOOLEAN, closeOk \in BOOLEAN :
           /\ clip' = stop_recording_data(stopOk)
           /\ duration' = stop_recording_duration(stopOk)
           /\ stop_recording(stopOk, closeOk)
    /\ pc' = IF duration' < MIN_RECORDING_TIME THEN "rs_short" ELSE "rs_post"
    /\ played' = FALSE
    /\ UNCHANGED <<fmVars, devNext, encoder_ok, cliVars, slide, caller, rs_result,
                   attempt_dir, discarded, answer, eng_last, procVars>>

\* Faulty variant of RsShort: a declined retry stores the short clip.
RsShort_DeclineSaves ==
    /\ pc = "rs_short"
    /\ \E retry \in BOOLEAN :
           IF retry
           THEN pc' = "rs_status" /\ rs_result' = rs_result /\ dir' = dir
           ELSE /\ pc' = "rs_return" /\ rs_result' = "False"
                /\ dir' = save_recording(dir, clip, slide, encoder_ok).dir
    /\ UNCHANGED <<last, engVars, envVars, cliVars, slide, caller, clip,
                   duration, obsVars, procVars>>

\* record_slide: the answer to confirm_action("try again")
RsShort ==
    /\ pc = "rs_short"
    /\ \E retry \in BOOLEAN :
           IF retry
           THEN pc' = "rs_status" /\ rs_result' = rs_result
           ELSE pc' = "rs_return" /\ rs_result' = "False"
    /\ UNCHANGED <<fmVars, engVars, envVars, cliVars, slide, caller, clip,
                   duration, obsVars, procVars>>

\* Faulty variant of RsPlayback: playing the clip uses it up.
RsPlayback_ConsumesClip ==
    /\ pc = "rs_post"
    /\ \E initOk, outOk \in BOOLEAN : play_recording(clip, initOk, outOk)
    /\ played' = TRUE
    /\ clip' = EmptyBlob
    /\ UNCHANGED <<fmVars, clock, devNext, encoder_ok, cliVars, pc, slide,
                   caller, duration, rs_result, attempt_dir, discarded, answer,
                   eng_last, procVars>>

\* post-recording options, choice 'p'
RsPlayback ==
    /\ pc = "rs_post"
    /\ \E initOk, outOk \in BOOLEAN : play_recording(clip, initOk, outOk)
    /\ played' = TRUE
    /\ UNCHANGED <<fmVars, clock, devNext, encoder_ok, cliVars, ctlVars,
                   attempt_dir, discarded, answer, eng_last, procVars>>

\* post-recording options, choice 'r'
RsRerecord ==
    /\ pc = "rs_post"
    /\ pc' = "rs_status"
    /\ discarded' = discarded \cup ChunksOf(clip)
    /\ UNCHANGED <<fmVars, engVars, envVars, cliVars, slide, caller, clip,
                   duration, rs_result, attempt_dir, played, answer, eng_last,
                   procVars>>

\* Faulty variant of RsSave: the clip is saved and the attempt reports False.
RsSave_ReturnsFalse ==
    /\ pc = "rs_post"
    /\ dir' = save_recording(dir, clip, slide, encoder_ok).dir
    /\ UNCHANGED last
    /\ pc' = "rs_return"
    /\ rs_result' = "False"
    /\ UNCHANGED <<engVars, envVars, cliVars, slide, caller, clip, duration,
                   obsVars, procVars>>

\* post-recording options, choice 's'
RsSave ==
    /\ pc = "rs_post"
    /\ dir' = save_recording(dir, clip, slide, encoder_ok).dir
    /\ UNCHANGED last
    /\ pc' = "rs_return"
    /\ rs_result' = "True"
    /\ UNCHANGED <<engVars, envVars, cliVars, slide, caller, clip, duration,
                   obsVars, procVars>>

\* record_slide has returned: run goes on with its loop; revisit_recording
\* leaves on True and shows its menu again on False.  The call's locals end.
RsReturn ==
    /\ pc = "rs_return"
    /\ IF caller = "revisit" /\ rs_result = "False"
       THEN pc' = "rv_menu" /\ slide' = slide
       ELSE pc' = "main_menu" /\ slide' = 0
    /\ caller' = "none"
    /\ clip' = EmptyBlob
    /\ duration' = 0
    /\ rs_result' = "none"
    /\ attempt_dir' = EmptyDir
    /\ played' = FALSE
    /\ UNCHANGED <<fmVars, engVars, envVars, cliVars, discarded, answer,
                   eng_last, procVars>>

\* The program as started by run_recorder.py without --debug.  Whether the
\* MP3 export works is a matter of the installation (ffmpeg with libmp3lame
\* present or not): it is one or the other for the whole run.
Init ==
    /\ InitCommon
    /\ InitProc
    /\ hooks = TRUE
    /\ encoder_ok \in BOOLEAN

Next ==
    \/ MenuRecordNext \/ MenuRevisit \/ MenuExit
    \/ RvBack \/ RvPlayback \/ RvRerecord \/ RvDelete
    \/ RsStatus \/ RsStart \/ RsTest \/ RsChunk \/ RsStop \/ RsShort
    \/ RsPlayback \/ RsRerecord \/ RsSave \/ RsReturn
    \/ Tick \/ SpaceKey

Spec == Init /\ [][Next]_vars

(***************************************************************************)
(* The recording of new slides on its own: run's choice "1" and            *)
(* record_slide, with the stop-key listener acting at any moment, in a     *)
(* program started with or without --debug (hooks).  The fair variant      *)
(* says that the controller's thread goes on running: the capture loop     *)
(* evaluates its condition, and a record_chunk call returns.               *)
(***************************************************************************)
InitCapture ==
    /\ InitCommon
    /\ InitProc
    /\ hooks \in BOOLEAN
    /\ encoder_ok = TRUE

NextCapture ==
    \/ MenuRecordNext
    \/ RsStatus \/ RsStart \/ RsTest \/ RsChunk \/ RsStop \/ RsShort
    \/ RsPlayback \/ RsRerecord \/ RsSave \/ RsReturn
    \/ Tick \/ space_key_callback

SpecCapture == InitCapture /\ [][NextCapture]_vars

SpecCaptureFair ==
    SpecCapture /\ WF_vars(RsStart) /\ WF_vars(RsTest) /\ WF_vars(RsChunk)

(***************************************************************************)
(* The configured bitrate (config.BITRATE): set by SlideRecorder.__init__  *)
(* from its audio_quality argument, read by convert_to_mp3 when it calls   *)
(* the export.  A program may construct several controllers, as the        *)
(* integration tests do.                                                   *)
(***************************************************************************)
\* The audio_quality values run_recorder.py accepts (click.Choice)
Qualities == {"low", "medium", "high"}

\* config.BITRATE as the module defines it
DEFAULT_BITRATE == "192k"

\* SlideRecorder.__init__, l. 30-36: the bitrate set for an audio_quality
bitrate_of(quality) ==
    IF quality = "low" THEN "64k"
    ELSE IF quality = "medium" THEN "96k"
    ELSE "128k"

\* Faulty variant of export_bitrate: the value the module was imported with.
export_bitrate_Default == DEFAULT_BITRATE

\* convert_to_mp3, l. 142: the bitrate handed to the export is
\* config.BITRATE as it is at the call.
export_bitrate == BITRATE

NotConfig ==
    <<last, engVars, envVars, cliVars, ctlVars, obsVars, mainVars, devVars,
      dir_present>>

\* SlideRecorder(audio_quality = quality)
SlideRecorderInit ==
    /\ \E quality \in Qualities :
           /\ BITRATE' = bitrate_of(quality)
           /\ audio_quality' = quality
    /\ encoded' = FALSE
    /\ UNCHANGED <<NotConfig, dir, encoded_at>>

\* A save_recording call; with a WAV clip and a working encoder the export
\* runs, with the bitrate of the moment.
ConfigSave ==
    /\ \E a \in SaveInputs, n \in SlideNumbers, ok \in BOOLEAN :
           /\ dir' = save_recording(dir, a, n, ok).dir
           /\ IF a.fmt = "wav" /\ ok
              THEN encoded_at' = export_bitrate /\ encoded' = TRUE
              ELSE UNCHANGED <<encoded_at, encoded>>
    /\ UNCHANGED <<NotConfig, BITRATE, audio_quality>>

\* The program after its imports: no controller constructed yet.
InitConfig ==
    /\ InitCommon
    /\ InitProcess
    /\ InitNoDevices
    /\ dir_present = TRUE
    /\ hooks = TRUE
    /\ encoder_ok = TRUE
    /\ BITRATE = DEFAULT_BITRATE
    /\ audio_quality = "none"
    /\ encoded_at = "none"
    /\ encoded = FALSE

NextConfig == SlideRecorderInit \/ ConfigSave

SpecConfig == InitConfig /\ [][NextConfig]_vars

(***************************************************************************)
(* The input devices (AudioRecorder.get_input_devices).  The audio library *)
(* numbers its devices from 0; devices[i + 1] is the device info of index  *)
(* i.                                                                      *)
(***************************************************************************)
\* The most devices a machine of the model has.
MaxDevices == 3

\* What get_device_info_by_index returns, as far as the engine reads it
DeviceInfos == [maxInputChannels : 0 .. 2, name : {"Microphone", "Speakers"}]

DeviceLists == UNION {[1 .. k -> DeviceInfos] : k \in 0 .. MaxDevices}

\* Faulty variant of get_input_devices_upto: every device is listed.
RECURSIVE get_input_devices_upto_All(_, _)
get_input_devices_upto_All(devs, count) ==
    IF count = 0 THEN <<>>
    ELSE Append(get_input_devices_upto_All(devs, count - 1),
                [index |-> count - 1, name |-> devs[count].name])

\* get_input_devices, l. 254-257: the list after the loop has looked at the
\* devices of index 0 .. count - 1
RECURSIVE get_input_devices_upto(_, _)
get_input_devices_upto(devs, count) ==
    IF count = 0 THEN <<>>
    ELSE LET before == get_input_devices_upto(devs, count - 1)
         IN  IF devs[count].maxInputChannels > 0
             THEN Append(before,
                         [index |-> count - 1, name |-> devs[count].name])
             ELSE before

\* AudioRecorder.get_input_devices, with a handle
get_input_devices(devs) == get_input_devices_upto(devs, Len(devs))

NotDevices ==
    <<fmVars, clock, devNext, encoder_ok, cliVars, ctlVars, obsVars, mainVars,
      cfgVars, dir_present, devices>>

\* A call of get_input_devices; without a handle self.pyaudio is None and
\* the call raises AttributeError.
ListDevices ==
    /\ device_list' = IF pyaudio = "None"
                      THEN [called |-> TRUE, raised |-> TRUE, ret |-> <<>>]
                      ELSE [called |-> TRUE, raised |-> FALSE,
                            ret |-> get_input_devices(devices)]
    /\ UNCHANGED <<NotDevices, engVars, unclosed>>

\* A call of cleanup: the engine is without a handle afterwards
DevicesCleanup ==
    /\ cleanup
    /\ UNCHANGED <<NotDevices, device_list>>

\* An engine just constructed, on a machine with any devices.
InitDevices ==
    /\ InitCommon
    /\ InitProcess
    /\ InitConfigured
    /\ dir_present = TRUE
    /\ hooks = TRUE
    /\ encoder_ok = TRUE
    /\ devices \in DeviceLists
    /\ device_list = NoDeviceCall

NextDevices == ListDevices \/ DevicesCleanup

SpecDevices == InitDevices /\ [][NextDevices]_vars

(***************************************************************************)
(* The output directory itself (config.init, ensure_directory_exists): it  *)
(* can be absent, as after the rmtree of the tests; dir is empty then.     *)
(***************************************************************************)
\* A call that raised instead of returning.
Raises == <<"raises">>

\* Faulty variant of ensure_directory_exists: makedirs without exist_ok
\* raises FileExistsError for a directory that is there.
ensure_directory_exists_Strict(present) ==
    IF present THEN [present |-> TRUE, ret |-> Raises]
    ELSE [present |-> TRUE, ret |-> NoneValue]

\* FileManager.ensure_directory_exists, that is config.init:
\* os.makedirs(DEFAULT_OUTPUT_DIR, exist_ok=True) creates the directory when
\* it is absent and does nothing when it is there; it returns None.
ensure_directory_exists(present) ==
    IF present THEN [present |-> present, ret |-> NoneValue]
    ELSE [present |-> TRUE, ret |-> NoneValue]

NotDir == <<engVars, envVars, cliVars, ctlVars, obsVars, mainVars, cfgVars,
            devVars>>

\* A call of ensure_directory_exists
EnsureDirectory ==
    /\ LET r == ensure_directory_exists(dir_present)
       IN  /\ dir_present' = r.present
           /\ last' = [op |-> "ensure", n |-> 0, arg |-> NoArg, enc |-> FALSE,
                       ret |-> r.ret, pre |-> NoFile]
    /\ UNCHANGED <<NotDir, dir>>

\* A call of save_recording; open(output_path, 'wb') raises
\* FileNotFoundError when the directory is absent.
DirSave ==
    /\ \E a \in SaveInputs, n \in SlideNumbers, ok \in BOOLEAN :
           LET r == save_recording(dir, a, n, ok)
           IN  /\ dir' = IF dir_present THEN r.dir ELSE dir
               /\ last' = [op |-> "save", n |-> n, arg |-> a, enc |-> ok,
                           ret |-> IF dir_present THEN r.ret ELSE Raises,
                           pre |-> ContentOf(dir, get_recording_path(n))]
    /\ UNCHANGED <<NotDir, dir_present>>

\* The directory is removed with all it holds (shutil.rmtree in the tests).
RemoveTree ==
    /\ dir_present
    /\ dir_present' = FALSE
    /\ dir' = EmptyDir
    /\ last' = [op |-> "rmtree", n |-> 0, arg |-> NoArg, enc |-> FALSE,
                ret |-> NoneValue, pre |-> NoFile]
    /\ UNCHANGED NotDir

NextDir == EnsureDirectory \/ DirSave \/ RemoveTree

SpecDir == InitFM /\ [][NextDir]_vars

(***************************************************************************)
(* The process (main.py: main, SlideRecorder.run, _handle_interrupt) and   *)
(* AudioRecorder.cleanup statement by statement.  main_pc is the place in  *)
(* main():                                                                 *)
(*   run              app.run() is in its loop               (l. 176)      *)
(*   run_cleanup      run: self.cleanup() after Exit         (l. 163)      *)
(*   except_cleanup   main: app.cleanup() of the except      (l. 179)      *)
(*   finally_cleanup  main: app.cleanup() of the finally     (l. 182)      *)
(*   atexit_cleanup   the exit hook, audio_recorder.py       (l. 28)       *)
(*   ended            the process is gone                                  *)
(* cl_pc is the statement of AudioRecorder.cleanup that the call made at   *)
(* main_pc executes next (audio_recorder.py):                              *)
(*   guard      if self._is_cleaning_up: return              (l. 228)      *)
(*   set        self._is_cleaning_up = True                  (l. 231)      *)
(*   stream     self._cleanup_stream()                       (l. 233)      *)
(*   terminate  if self.pyaudio: self.pyaudio.terminate()    (l. 234-235)  *)
(*   clear      print; self.pyaudio = None                   (l. 236-237)  *)
(*   reset      finally: self._is_cleaning_up = False        (l. 241)      *)
(*   return     the call returns to main_pc                                *)
(* A signal handler runs in the main thread between two statements of the  *)
(* interrupted code, and runs to its end.                                  *)
(***************************************************************************)
\* The SIGINT signals followed in one run.
MaxInterrupts == 1

NotMain ==
    <<fmVars, frames, start_time, devNext, encoder_ok, cliVars, ctlVars,
      obsVars, cfgVars, devVars, dir_present>>

\* run: a recording session begins (start_recording returns normally); the
\* handle is rebuilt, so no terminate() was called on the new one.
MainStart ==
    /\ main_pc = "run"
    /\ ~recording
    /\ start_recording("ok")
    /\ terminations' = 0
    /\ UNCHANGED <<NotMain, main_pc, cl_pc, is_cleaning_up, interrupts,
                   exit_status, run_end>>

\* run: the session is stopped
MainStop ==
    /\ main_pc = "run"
    /\ recording
    /\ \E stopOk, closeOk \in BOOLEAN : stop_recording(stopOk, closeOk)
    /\ UNCHANGED <<NotMain, mainVars>>

\* run, choice "3": the loop is left and run calls self.cleanup()
MainExit ==
    /\ main_pc = "run"
    /\ main_pc' = "run_cleanup"
    /\ cl_pc' = "guard"
    /\ run_end' = "exit"
    /\ UNCHANGED <<NotMain, engVars, clock, unclosed, is_cleaning_up,
                   terminations, interrupts, exit_status>>

\* An exception (a filesystem error of save or delete, a failed start)
\* leaves run: main's except clause prints it and calls app.cleanup().
MainFails ==
    /\ main_pc = "run"
    /\ main_pc' = "except_cleanup"
    /\ cl_pc' = "guard"
    /\ run_end' = "failure"
    /\ UNCHANGED <<NotMain, engVars, clock, unclosed, is_cleaning_up,
                   terminations, interrupts, exit_status>>

\* cleanup, l. 228: the guard
CleanupGuard ==
    /\ cl_pc = "guard"
    /\ cl_pc' = IF is_cleaning_up THEN "return" ELSE "set"
    /\ UNCHANGED <<NotMain, engVars, clock, unclosed, main_pc, is_cleaning_up,
                   terminations, interrupts, exit_status, run_end>>

\* cleanup, l. 231
CleanupSet ==
    /\ cl_pc = "set"
    /\ is_cleaning_up' = TRUE
    /\ cl_pc' = "stream"
    /\ UNCHANGED <<NotMain, engVars, clock, unclosed, main_pc, terminations,
                   interrupts, exit_status, run_end>>

\* cleanup, l. 233: _cleanup_stream drops the reference; the stream stays
\* open when stopping or closing it raised (swallowed).
CleanupStream ==
    /\ cl_pc = "stream"
    /\ stream' = "None"
    /\ \E closeOk \in BOOLEAN :
           unclosed' = IF stream # "None" /\ ~closeOk THEN TRUE ELSE unclosed
    /\ cl_pc' = "terminate"
    /\ UNCHANGED <<NotMain, recording, pyaudio, clock, main_pc, is_cleaning_up,
                   terminations, interrupts, exit_status, run_end>>

\* cleanup, l. 234-235: the handle, if there is one, is terminated
CleanupTerminate ==
    /\ cl_pc = "terminate"
    /\ IF pyaudio # "None"
       THEN /\ terminations' = terminations + 1
            /\ unclosed' = FALSE
            /\ cl_pc' = "clear"
       ELSE /\ UNCHANGED <<terminations, unclosed>>
            /\ cl_pc' = "reset"
    /\ UNCHANGED <<NotMain, engVars, clock, main_pc, is_cleaning_up, interrupts,
                   exit_status, run_end>>

\* cleanup, l. 236-237: the reference to the handle is dropped
CleanupClear ==
    /\ cl_pc = "clear"
    /\ pyaudio' = "None"
    /\ cl_pc' = "reset"
    /\ UNCHANGED <<NotMain, recording, stream, clock, unclosed, main_pc,
                   is_cleaning_up, terminations, interrupts, exit_status,
                   run_end>>

\* cleanup, l. 241
CleanupReset ==
    /\ cl_pc = "reset"
    /\ is_cleaning_up' = FALSE
    /\ cl_pc' = "return"
    /\ UNCHANGED <<NotMain, engVars, clock, unclosed, main_pc, terminations,
                   interrupts, exit_status, run_end>>

\* Faulty variant of CleanupReturn: the except clause ends without
\* sys.exit(1).
CleanupReturn_NoFailureStatus ==
    /\ cl_pc = "return"
    /\ main_pc' = CASE main_pc = "run_cleanup" -> "finally_cleanup"
                    [] main_pc = "except_cleanup" -> "finally_cleanup"
                    [] main_pc = "finally_cleanup" -> "atexit_cleanup"
                    [] OTHER -> "ended"
    /\ cl_pc' = IF main_pc = "atexit_cleanup" THEN "none" ELSE "guard"
    /\ exit_status' = IF main_pc = "finally_cleanup"
                         /\ exit_status = "none" THEN "0"
                      ELSE exit_status
    /\ UNCHANGED <<NotMain, engVars, clock, unclosed, is_cleaning_up,
                   terminations, interrupts, run_end>>

\* The cleanup call returns, and main goes on: after run's cleanup to the
\* finally clause, after the except clause's to sys.exit(1) and from there
\* to the finally clause, after the finally clause's out of main and to the
\* exit hooks, after the exit hook's to the end of the process.
CleanupReturn ==
    /\ cl_pc = "return"
    /\ main_pc' = CASE main_pc = "run_cleanup" -> "finally_cleanup"
                    [] main_pc = "except_cleanup" -> "finally_cleanup"
                    [] main_pc = "finally_cleanup" -> "atexit_cleanup"
                    [] OTHER -> "ended"
    /\ cl_pc' = IF main_pc = "atexit_cleanup" THEN "none" ELSE "guard"
    /\ exit_status' = IF main_pc = "except_cleanup" THEN "1"
                      ELSE IF main_pc = "finally_cleanup"
                              /\ exit_status = "none" THEN "0"
                      ELSE exit_status
    /\ UNCHANGED <<NotMain, engVars, clock, unclosed, is_cleaning_up,
                   terminations, interrupts, run_end>>

\* SlideRecorder._handle_interrupt, on SIGINT before the exit hooks run:
\* self.cleanup() as a nested call, from its guard to its end, then
\* sys.exit(0).  SystemExit leaves the interrupted statement: through the
\* finally clause of an interrupted cleanup (the flag is false afterwards in
\* every case), past main's except clause, into main's finally clause, or
\* out of it when the finally clause itself was interrupted.
handle_interrupt ==
    /\ interrupts < MaxInterrupts
    /\ main_pc \in {"run", "run_cleanup", "except_cleanup", "finally_cleanup"}
    /\ interrupts' = interrupts + 1
    /\ IF is_cleaning_up
       THEN UNCHANGED <<stream, pyaudio, unclosed, terminations>>
       ELSE /\ stream' = "None"
            /\ pyaudio' = "None"
            /\ unclosed' = terminate_unclosed
            /\ terminations' = IF pyaudio # "None" THEN terminations + 1
                               ELSE terminations
    /\ is_cleaning_up' = FALSE
    /\ exit_status' = "0"
    /\ main_pc' = IF main_pc = "finally_cleanup" THEN "atexit_cleanup"
                  ELSE "finally_cleanup"
    /\ cl_pc' = "guard"
    /\ UNCHANGED <<NotMain, recording, clock, run_end>>

InitMain ==
    /\ InitCommon
    /\ InitProc
    /\ hooks = TRUE
    /\ encoder_ok = TRUE

NextMain ==
    \/ MainStart \/ MainStop \/ MainExit \/ MainFails
    \/ CleanupGuard \/ CleanupSet \/ CleanupStream \/ CleanupTerminate
    \/ CleanupClear \/ CleanupReset \/ CleanupReturn
    \/ handle_interrupt

SpecMain == InitMain /\ [][NextMain]_vars

(***************************************************************************)
(* Properties of the storage layer.                                        *)
(***************************************************************************)
\* The slide numbers whose recording file is present.
ExistingSlides(d) == {n \in 1 .. (MaxSlide + 1) : recording_exists(d, n)}

SetMax(S) == CHOOSE m \in S : \A k \in S : k <= m

InSeq(x, s) == \E i \in 1 .. Len(s) : s[i] = x

\* The step is a storage call of the given kind (every storage call sets last).
FMCall(op) == last' # last /\ last'.op = op

\* The backup files of slide n that the directory holds.
BackupFilesOf(d, n) ==
    {f \in DOMAIN d : /\ GlobMatch(f)
                      /\ EndsWith(Stem(f), BackupInfix)
                      /\ SlideNumberOf(f) = n}

\* C1: after any sequence of save, delete and backup calls, the next slide
\* number is 1 when no slide has a recording file, and otherwise 1 + the
\* largest slide number whose recording file exists.
C1_NextIsMaxExistingPlusOne ==
    get_next_slide_number(dir) =
        IF ExistingSlides(dir) = {} THEN 1 ELSE SetMax(ExistingSlides(dir)) + 1

\* C2: after any sequence of save, delete and backup calls, a slide number
\* is in the recording list if and only if its recording file exists.
C2_ListedIffExists ==
    /\ \A n \in SlideNumbers :
           InSeq(n, get_recording_list(dir)) <=> recording_exists(dir, n)
    /\ \A i \in 1 .. Len(get_recording_list(dir)) :
           recording_exists(dir, get_recording_list(dir)[i])

\* C3: a save writes exactly the encoded clip to the path of its slide
\* number, whatever that path held before, and returns that path: the file
\* read right after the save is the encoder's output for the clip.
C3_SaveWritesEncoded ==
    last.op = "save" =>
        /\ last.ret = get_recording_path(last.n)
        /\ last.ret \in DOMAIN dir
        /\ dir[last.ret] = convert_to_mp3(last.arg, last.enc)

\* C3 witness: a save of a WAV clip that the encoder compressed has replaced
\* a different earlier content of the same path.
C3_Witness ==
    /\ last.op = "save"
    /\ last.arg.fmt = "wav" /\ last.enc
    /\ last.pre # NoFile
    /\ last.pre # dir[get_recording_path(last.n)]
    /\ dir[get_recording_path(last.n)] = Mp3Blob(last.arg.data)

\* C4: delete of a slide without a recording file returns false and leaves
\* the directory unchanged; delete of a slide with a recording file returns
\* true and the recording no longer exists afterwards.
C4_DeleteResult ==
    [][FMCall("delete") =>
          IF recording_exists(dir, last'.n)
          THEN last'.ret = RetBool(TRUE) /\ ~recording_exists(dir', last'.n)
          ELSE last'.ret = RetBool(FALSE) /\ dir' = dir]_vars

\* C4 witness: a delete has returned true and removed an existing recording.
C4_Witness ==
    /\ last.op = "delete"
    /\ last.ret = RetBool(TRUE)
    /\ last.pre # NoFile
    /\ ~recording_exists(dir, last.n)

\* C5: a backup of a slide with a recording leaves a backup file equal to
\* the recording as it was at the call and leaves the recording unchanged,
\* also when an earlier backup with other content is there (it is replaced);
\* no slide ever has more than one backup file.
C5_BackupCopies ==
    /\ [](\A n \in SlideNumbers : Cardinality(BackupFilesOf(dir, n)) <= 1)
    /\ [][(FMCall("backup") /\ recording_exists(dir, last'.n)) =>
             /\ last'.ret = backup_path(last'.n)
             /\ backup_path(last'.n) \in DOMAIN dir'
             /\ dir'[backup_path(last'.n)] = dir[get_recording_path(last'.n)]
             /\ recording_exists(dir', last'.n)
             /\ dir'[get_recording_path(last'.n)] = dir[get_recording_path(last'.n)]
             /\ BackupFilesOf(dir', last'.n) = {backup_path(last'.n)}]_vars

\* C5 witness: a backup taken after a re-save has replaced an earlier backup
\* that held other content.
C5_Witness ==
    /\ last.op = "backup"
    /\ last.ret = backup_path(last.n)
    /\ last.pre # NoFile
    /\ last.pre # dir[backup_path(last.n)]
    /\ dir[backup_path(last.n)] = dir[get_recording_path(last.n)]

\* C6: a backup of a slide without a recording returns None and changes
\* nothing in the directory: no backup file is created and a backup file
\* that is already there stays as it is.
C6_BackupMissingSource ==
    [][(FMCall("backup") /\ ~recording_exists(dir, last'.n)) =>
          last'.ret = NoneValue /\ dir' = dir]_vars

\* C6 witness: a backup of a slide whose recording was deleted returned None
\* while the slide's earlier backup file is still in the directory.
C6_Witness ==
    /\ last.op = "backup"
    /\ last.ret = NoneValue
    /\ ~recording_exists(dir, last.n)
    /\ backup_path(last.n) \in DOMAIN dir

(***************************************************************************)
(* Properties of a recording attempt (one call of record_slide).           *)
(***************************************************************************)
\* The controller moves from one place of record_slide to another.
Moves(from, to) == pc = from /\ pc' = to

\* The controller leaves the place it is at.
Leaves(from) == pc = from /\ pc' # from

\* The chunks held by the files of a directory.
StoredChunks(d) == UNION {ChunksOf(d[f]) : f \in DOMAIN d}

\* C7: an attempt starts the engine, reads chunks for as long as the stop
\* signal is not observed and the read returns true, and leaves the loop at
\* the first of the two; then it stops the engine once, and a duration that
\* is not below the minimum leads to the post-recording decision.
C7_CaptureLoop ==
    [][/\ Moves("rs_start", "rs_test") => recording' /\ stream' = "input"
       /\ Leaves("rs_test") =>
              /\ pc' = IF cli_recording THEN "rs_chunk" ELSE "rs_stop"
              /\ frames' = frames /\ recording' = recording
       /\ Leaves("rs_chunk") =>
              /\ pc' \in {"rs_test", "rs_stop"}
              /\ pc' = "rs_test" <=>
                     /\ Len(frames') = Len(frames) + 1
                     /\ clock - start_time <= MAX_RECORDING_TIME
              /\ recording' = recording
       /\ (pc' = "rs_stop" /\ pc # "rs_stop") => pc \in {"rs_test", "rs_chunk"}
       /\ Leaves("rs_stop") =>
              /\ recording /\ ~recording'
              /\ pc' \in {"rs_short", "rs_post"}
              /\ pc' = "rs_post" <=> duration' >= MIN_RECORDING_TIME
       /\ (pc' \in {"rs_short", "rs_post"} /\ pc' # pc) => pc = "rs_stop"]_vars

\* C7 witness: the post-recording decision is reached after two chunks were
\* read and the second read returned false at the maximum recording time,
\* with no stop signal.
C7_Witness ==
    /\ pc = "rs_post"
    /\ cli_recording
    /\ Len(clip.data) = 2
    /\ duration > MAX_RECORDING_TIME

\* C8: a duration below the minimum leads to the retry question; a declined
\* retry ends the attempt with False and with the directory as it was when
\* the attempt began; an accepted retry starts a new recording of the same
\* slide.
C8_ShortRecording ==
    [][/\ (Leaves("rs_stop") /\ duration' < MIN_RECORDING_TIME) =>
              pc' = "rs_short" /\ dir' = dir
       /\ Leaves("rs_short") =>
              /\ slide' = slide
              /\ \/ pc' = "rs_status" /\ dir' = dir
                 \/ /\ pc' = "rs_return"
                    /\ rs_result' = "False"
                    /\ dir' = attempt_dir
       /\ Leaves("rs_status") => pc' = "rs_start" /\ slide' = slide
       /\ Leaves("rs_start") =>
              pc' \in {"rs_test", "failed"} /\ slide' = slide]_vars

\* C8 witness: a re-recording of an existing slide was abandoned after a
\* short recording, and the slide's file is there as before.
C8_Witness ==
    /\ pc = "rs_return"
    /\ rs_result = "False"
    /\ caller = "revisit"
    /\ recording_exists(dir, slide)
    /\ dir = attempt_dir

\* C9: the clip of the post-recording decision is the one stop returned;
\* a playback leaves the clip, the slide and the directory as they are and
\* comes back to the decision; Save writes the encoding of that clip to the
\* slide's path and the attempt returns True.
C9_PlaybackKeepsClip ==
    [][/\ Moves("rs_stop", "rs_post") =>
              clip' = WavBlob(frames) /\ frames' = frames
       /\ Moves("rs_post", "rs_post") =>
              /\ clip' = clip /\ duration' = duration /\ frames' = frames
              /\ slide' = slide /\ dir' = dir
       /\ Leaves("rs_post") => pc' \in {"rs_status", "rs_return"}
       /\ Moves("rs_post", "rs_return") =>
              /\ clip = WavBlob(frames)
              /\ dir' = WriteFile(dir, get_recording_path(slide),
                                  convert_to_mp3(clip, encoder_ok))
              /\ rs_result' = "True"]_vars

\* C9 witness: a clip with audio was played back and then saved, and the
\* slide's file holds its encoding.
C9_Witness ==
    /\ pc = "rs_return"
    /\ rs_result = "True"
    /\ played
    /\ clip.data # <<>>
    /\ dir[get_recording_path(slide)] = convert_to_mp3(clip, encoder_ok)

\* C10: Rerecord writes nothing and restarts the recording of the same slide
\* with an empty frame buffer; no chunk of a discarded clip is in a file, in
\* the frame buffer of a later session or in a later clip.
C10_RerecordDiscards ==
    /\ [](/\ StoredChunks(dir) \cap discarded = {}
          /\ pc \in {"rs_test", "rs_chunk", "rs_stop"} =>
                 {frames[i] : i \in 1 .. Len(frames)} \cap discarded = {}
          /\ pc = "rs_post" => ChunksOf(clip) \cap discarded = {})
    /\ [][/\ Moves("rs_post", "rs_status") =>
                 /\ dir' = dir /\ slide' = slide
                 /\ ChunksOf(clip) \subseteq discarded'
          /\ Moves("rs_status", "rs_start") => dir' = dir /\ slide' = slide
          /\ Moves("rs_start", "rs_test") =>
                 frames' = <<>> /\ dir' = dir /\ slide' = slide]_vars

\* C10 witness: after a clip with audio was discarded, the decision is
\* reached again with a new clip with audio that shares no chunk with it.
C10_Witness ==
    /\ pc = "rs_post"
    /\ discarded # {}
    /\ clip.data # <<>>
    /\ ChunksOf(clip) \cap discarded = {}

(***************************************************************************)
(* Properties of the revisit flow.                                         *)
(***************************************************************************)
\* The places of record_slide.
AttemptPlaces ==
    {"rs_status", "rs_start", "rs_test", "rs_chunk", "rs_stop", "rs_short",
     "rs_post", "rs_return"}

\* C11: Re-record of the revisit menu copies the slide's recording to its
\* backup file and then enters record_slide for the same slide; the attempt
\* stays with that slide, and when it returns True the slide's file holds
\* the encoding of the new clip and the backup file holds what the slide's
\* file held before the re-record.
C11_RerecordKeepsBackup ==
    /\ []((/\ pc = "rs_return" /\ caller = "revisit" /\ rs_result = "True"
           /\ recording_exists(attempt_dir, slide)) =>
              /\ recording_exists(dir, slide)
              /\ dir[get_recording_path(slide)] = convert_to_mp3(clip, encoder_ok)
              /\ backup_path(slide) \in DOMAIN dir
              /\ dir[backup_path(slide)] = attempt_dir[get_recording_path(slide)])
    /\ [][/\ Moves("rv_menu", "rs_status") =>
                 /\ slide' = slide /\ caller' = "revisit"
                 /\ dir' = IF recording_exists(dir, slide)
                           THEN WriteFile(dir, backup_path(slide),
                                          dir[get_recording_path(slide)])
                           ELSE dir
                 /\ attempt_dir' = dir'
          /\ (pc \in AttemptPlaces /\ pc' \in AttemptPlaces) =>
                 /\ slide' = slide /\ caller' = caller
                 /\ attempt_dir' = attempt_dir]_vars

\* C11 witness: a re-record of an existing recording has ended with Save:
\* the backup file holds the earlier content and the slide's file another.
C11_Witness ==
    /\ pc = "rs_return" /\ caller = "revisit" /\ rs_result = "True"
    /\ recording_exists(attempt_dir, slide)
    /\ dir[backup_path(slide)] = attempt_dir[get_recording_path(slide)]
    /\ dir[get_recording_path(slide)] # dir[backup_path(slide)]
    /\ clip.data # <<>>

\* C12: a recording file disappears only in a step of the revisit menu that
\* answers yes to the confirmation, and it is the revisited slide's; an
\* answer of no changes nothing in the directory and stays in the revisit
\* menu of the same slide; after an answer of yes the slide's recording does
\* not exist and the flow is back at the main menu.
C12_DeleteOnlyConfirmed ==
    [][/\ \A n \in 1 .. (MaxSlide + 1) :
              (recording_exists(dir, n) /\ ~recording_exists(dir', n)) =>
                  /\ pc = "rv_menu" /\ n = slide
                  /\ answer' = "yes"
       /\ (pc = "rv_menu" /\ answer' = "no") =>
              /\ dir' = dir
              /\ pc' = "rv_menu" /\ slide' = slide
       /\ (pc = "rv_menu" /\ answer' = "yes") =>
              /\ ~recording_exists(dir', slide)
              /\ dir' = IF recording_exists(dir, slide)
                        THEN RemoveFile(dir, get_recording_path(slide))
                        ELSE dir
              /\ pc' = "main_menu"]_vars

\* C12 witness: a confirmed delete has removed the recording of a slide
\* that was re-recorded before: its backup file is still there.
C12_Witness ==
    /\ pc = "main_menu"
    /\ answer = "yes"
    /\ ~recording_exists(dir, 1)
    /\ backup_path(1) \in DOMAIN dir

(***************************************************************************)
(* Properties of the capture engine.                                       *)
(***************************************************************************)
\* The engine's five fields, as a record in the shape of eng_last.pre.
EngineFields(e) ==
    <<e.recording, e.stream, e.frames, e.start_time, e.pyaudio>>

\* C13: a stop made while the engine is not recording returns the empty blob
\* and duration zero, and leaves the recording flag, the stream, the frame
\* buffer, the start time and the device handle as they were.
C13_StopWhenIdle ==
    (eng_last.op = "stop" /\ ~eng_last.pre.recording) =>
        /\ eng_last.data = EmptyBlob
        /\ eng_last.dur = 0
        /\ EngineFields(EngineState) = EngineFields(eng_last.pre)
        /\ unclosed = eng_last.pre.unclosed

\* C13 witness: a stop was made on an idle engine whose frame buffer still
\* holds the chunks of an earlier session.
C13_Witness ==
    /\ eng_last.op = "stop"
    /\ ~eng_last.pre.recording
    /\ eng_last.pre.frames # <<>>
    /\ frames = eng_last.pre.frames

\* C14: a start made while the engine is recording returns without raising
\* and leaves the frame buffer with the chunks captured so far, the start
\* time, the open stream, the device handle and the recording flag as they
\* were.
C14_StartWhenRecording ==
    (eng_last.op = "start" /\ eng_last.pre.recording) =>
        /\ eng_last.ret
        /\ EngineFields(EngineState) = EngineFields(eng_last.pre)
        /\ unclosed = eng_last.pre.unclosed

\* C14 witness: a start was made in a running session that had captured a
\* chunk, and the session goes on with that chunk.
C14_Witness ==
    /\ eng_last.op = "start"
    /\ eng_last.pre.recording
    /\ eng_last.pre.stream = "input"
    /\ eng_last.pre.frames # <<>>
    /\ recording /\ stream = "input" /\ frames = eng_last.pre.frames

\* C15, as stated: the frame buffer is empty and the recording flag is false
\* before every start that begins a session and after every stop that
\* reached its normal return.
C15_IdleEngineIsEmpty ==
    /\ (eng_last.op = "start" /\ ~eng_last.pre.recording) =>
           eng_last.pre.frames = <<>>
    /\ (eng_last.op = "stop" /\ eng_last.pre.recording /\ eng_last.ret) =>
           frames = <<>> /\ ~recording

\* C15, amended: the recording flag is false after every stop, and a stop
\* leaves the frame buffer with the chunks of the session; the buffer is
\* empty right after every start that begins a session, whatever it held
\* before.
C15_FramesClearedAtStart ==
    /\ (eng_last.op = "stop" /\ eng_last.pre.recording) =>
           ~recording /\ frames = eng_last.pre.frames
    /\ (eng_last.op = "start" /\ ~eng_last.pre.recording /\ recording) =>
           frames = <<>>

\* C15 witness: a session was started on an engine whose buffer still held
\* the chunks of the session before, which a stop with a normal return had
\* left there; the buffer is empty now.
C15_Witness ==
    /\ eng_last.op = "start"
    /\ ~eng_last.pre.recording
    /\ eng_last.pre.frames # <<>>
    /\ eng_last.pre.pyaudio = "PyAudio"
    /\ recording
    /\ frames = <<>>

\* C16: a record_chunk made while the engine is not recording, or while it
\* has no stream, returns false, takes no chunk from the device and leaves
\* the frame buffer and the rest of the engine as they were.
C16_ChunkWhenIdle ==
    (eng_last.op = "chunk"
       /\ (~eng_last.pre.recording \/ eng_last.pre.stream = "None")) =>
        /\ ~eng_last.ret
        /\ devNext = eng_last.pre.devNext
        /\ frames = eng_last.pre.frames
        /\ EngineFields(EngineState) = EngineFields(eng_last.pre)

\* C16 witness: a record_chunk was made in a session that had captured a
\* chunk and then lost its stream, with the device handle back in place.
C16_Witness ==
    /\ eng_last.op = "chunk"
    /\ eng_last.pre.recording
    /\ eng_last.pre.stream = "None"
    /\ eng_last.pre.pyaudio = "PyAudio"
    /\ eng_last.pre.frames # <<>>
    /\ eng_last.arg = "read_ok"
    /\ ~eng_last.ret

\* C17: a record_chunk made while recording with an open stream, whose read
\* goes through, appends exactly the chunk read to the frame buffer; it
\* returns true when the time since the start is at most
\* MAX_RECORDING_TIME and false when it is more.
C17_ChunkAppendsAndCaps ==
    (eng_last.op = "chunk" /\ eng_last.arg = "read_ok"
       /\ eng_last.pre.recording /\ eng_last.pre.stream # "None") =>
        /\ frames = Append(eng_last.pre.frames, eng_last.pre.devNext)
        /\ devNext = eng_last.pre.devNext + 1
        /\ recording /\ stream = eng_last.pre.stream
        /\ eng_last.ret <=>
               (eng_last.pre.clock - eng_last.pre.start_time
                    <= MAX_RECORDING_TIME)

\* C17 witness: a second chunk was read after the maximum recording time had
\* passed: it is in the buffer, and the call returned false.
C17_Witness ==
    /\ eng_last.op = "chunk" /\ eng_last.arg = "read_ok"
    /\ eng_last.pre.recording /\ eng_last.pre.stream # "None"
    /\ eng_last.pre.clock - eng_last.pre.start_time > MAX_RECORDING_TIME
    /\ Len(eng_last.pre.frames) = 1
    /\ Len(frames) = 2
    /\ ~eng_last.ret

\* C18: a record_chunk whose read fails returns false, and after it the
\* engine has no stream, the audio library holds no open stream of it, the
\* device handle is released, and the frame buffer holds what it held before
\* the call.
C18_ChunkReadFails ==
    (eng_last.op = "chunk" /\ eng_last.arg = "read_fails"
       /\ eng_last.pre.recording /\ eng_last.pre.stream # "None") =>
        /\ ~eng_last.ret
        /\ stream = "None"
        /\ ~unclosed
        /\ pyaudio = "None"
        /\ frames = eng_last.pre.frames
        /\ devNext = eng_last.pre.devNext

\* C18 witness: the read failed in a session that had captured a chunk.
C18_Witness ==
    /\ eng_last.op = "chunk" /\ eng_last.arg = "read_fails"
    /\ eng_last.pre.recording /\ eng_last.pre.stream = "input"
    /\ eng_last.pre.pyaudio = "PyAudio"
    /\ eng_last.pre.frames # <<>>
    /\ stream = "None" /\ pyaudio = "None"

\* C19: after every stop made while recording, the engine refers to no
\* stream and the input stream of the session is closed, also when stopping
\* the stream or building the blob failed inside the call.
C19_StopClosesStream ==
    (eng_last.op = "stop" /\ eng_last.pre.recording) =>
        /\ stream = "None"
        /\ ~unclosed

(***************************************************************************)
(* Properties of the encoder's fallback.                                   *)
(***************************************************************************)
\* C20: convert_to_mp3 returns its input as it is when the encoder fails
\* (the export raises, or the input is no WAV file), and a save whose
\* encoding fails writes the slide's file all the same, with exactly the
\* audio data it was given.
C20_EncoderFallback ==
    /\ \A a \in SaveInputs : convert_to_mp3(a, FALSE) = a
    /\ (last.op = "save" /\ ~(last.enc /\ last.arg.fmt = "wav")) =>
           /\ last.ret = get_recording_path(last.n)
           /\ recording_exists(dir, last.n)
           /\ dir[get_recording_path(last.n)] = last.arg

\* C20 witness: a save of a WAV clip whose export failed has replaced an
\* encoded recording of the slide by the WAV clip itself.
C20_Witness ==
    /\ last.op = "save"
    /\ last.arg.fmt = "wav" /\ ~last.enc
    /\ last.pre.fmt = "mp3"
    /\ dir[get_recording_path(last.n)] = last.arg

(***************************************************************************)
(* Properties of playback.                                                 *)
(***************************************************************************)
\* C21: when play_recording returns, no output stream is left open: the
\* stream it opened is stopped and closed after a normal playback and also
\* when a call on it failed.
C21_PlayClosesOutput ==
    eng_last.op = "play" => ~unclosed

(***************************************************************************)
(* Properties of the release of the engine and of the end of the process.  *)
(***************************************************************************)
\* C22: under every interleaving of the interrupt handler with the cleanup
\* calls of run, of main and of the exit hook, terminate() is called at
\* most once on a handle.
C22_TerminatedOnce ==
    terminations <= 1

\* The engine is released: it refers to no stream and to no handle, and the
\* audio library holds no open stream.
Released == stream = "None" /\ pyaudio = "None" /\ ~unclosed

\* C26: the process ends with the engine released; when no interrupt came,
\* a run ended by Exit gives exit status 0, and a run left by an exception
\* gives exit status 1, set after the cleanup call of main's except clause
\* (the status is not yet decided while that call runs, and the engine is
\* released when it is set).
C26_ExitStatus ==
    /\ main_pc = "ended" => Released
    /\ (main_pc = "ended" /\ interrupts = 0) =>
           exit_status = (IF run_end = "failure" THEN "1" ELSE "0")
    /\ (main_pc = "except_cleanup" /\ interrupts = 0) =>
           (run_end = "failure" /\ exit_status = "none")
    /\ (exit_status = "1" /\ interrupts = 0) =>
           (run_end = "failure" /\ Released)
    /\ (main_pc = "run_cleanup") => run_end = "exit"

\* C26 witness: a run left by an exception while a session was being
\* recorded has ended with status 1, without an interrupt.
C26_Witness ==
    /\ main_pc = "ended"
    /\ interrupts = 0
    /\ run_end = "failure"
    /\ recording
    /\ exit_status = "1"
    /\ Released

(***************************************************************************)
(* Properties of the stop key and the capture loop.                        *)
(***************************************************************************)
\* The capture loop is running: its condition is being evaluated.
InCaptureLoop == pc \in {"rs_test", "rs_chunk"}

\* C23: once the flag is false while the capture loop runs, it stays false
\* in the loop; the loop begins a record_chunk call only after reading the
\* flag as true, so with the flag false it goes from its test to stop and
\* nowhere else, and a record_chunk call begun before (at most that one: at
\* most one more chunk is appended) leads back to the test or to stop; and
\* the loop does reach stop.
C23_BoundedCancellation ==
    /\ [][/\ (pc' = "rs_chunk" /\ pc # "rs_chunk") => cli_recording
          /\ (~cli_recording /\ InCaptureLoop) => ~cli_recording'
          /\ (~cli_recording /\ pc = "rs_test") =>
                 (pc' \in {"rs_test", "rs_stop"} /\ frames' = frames)
          /\ (~cli_recording /\ pc = "rs_chunk") =>
                 /\ pc' \in {"rs_chunk", "rs_test", "rs_stop"}
                 /\ Len(frames') <= Len(frames) + 1]_vars
    /\ ((~cli_recording /\ InCaptureLoop) ~> (pc = "rs_stop"))

\* C23 witness: the loop has gone to stop with the flag cleared, the session
\* still running and a chunk recorded.
C23_Witness ==
    /\ pc = "rs_stop"
    /\ ~cli_recording
    /\ recording
    /\ frames # <<>>

\* Every variable but the shared flag.
NotFlag == <<fmVars, engVars, envVars, hooks, ctlVars, obsVars, procVars>>

\* C24 as stated: the flag is written by the listener only; every change of
\* it is a step of the listener, which changes nothing else.
C24_ListenerOnlyWriter ==
    [][cli_recording' # cli_recording => (hooks /\ UNCHANGED NotFlag)]_vars

\* C24: the flag has two writers.  It is cleared by the listener only (a
\* step that changes nothing else, in a program with hooks), and it is set
\* by display_recording_status only, at the beginning of every attempt; so
\* the flag is true when an attempt begins, and when the capture loop ends
\* because it read the flag as false, the listener has cleared it since
\* that attempt began.
C24_FlagWriters ==
    [][/\ (cli_recording /\ ~cli_recording') => (hooks /\ UNCHANGED NotFlag)
       /\ (~cli_recording /\ cli_recording') => Moves("rs_status", "rs_start")
       /\ Leaves("rs_status") => cli_recording'
       /\ Moves("rs_test", "rs_stop") => ~cli_recording]_vars

\* C24 witness: after an attempt whose clip was discarded, a later attempt
\* of the same call has recorded a chunk and its loop was ended by the flag.
C24_Witness ==
    /\ pc = "rs_stop"
    /\ ~cli_recording
    /\ hooks
    /\ discarded # {}
    /\ frames # <<>>

\* C25: in a program started with the hooks disabled the flag is set from
\* the beginning of an attempt to its end, so the capture loop never leaves
\* from its test of the flag: it ends only when record_chunk returns false.
C25_NoListenerWithoutHooks ==
    /\ [](~hooks => ((pc \in {"rs_start", "rs_test", "rs_chunk", "rs_stop"})
                         => cli_recording))
    /\ [][~hooks => /\ ~(cli_recording /\ ~cli_recording')
                    /\ ~Moves("rs_test", "rs_stop")
                    /\ (pc # "rs_stop" /\ pc' = "rs_stop") =>
                           Moves("rs_chunk", "rs_stop")]_vars

\* C25 witness: without hooks a capture loop has ended after recording a
\* chunk, with the flag still set.
C25_Witness ==
    /\ ~hooks
    /\ pc = "rs_stop"
    /\ cli_recording
    /\ frames # <<>>

(***************************************************************************)
(* Properties of a failing start.                                          *)
(***************************************************************************)
\* C27: a start of an idle engine whose handle cannot be rebuilt or whose
\* stream cannot be opened raises, and leaves the engine not recording,
\* with no stream, with no handle and with no stream open in the library;
\* a start of an engine without a handle (as a failed start leaves it)
\* whose calls work returns normally with a new handle and an open stream.
C27_StartFails ==
    /\ (eng_last.op = "start" /\ ~eng_last.pre.recording
            /\ eng_last.arg \in {"init_fails", "open_fails"}) =>
           /\ ~eng_last.ret
           /\ ~recording
           /\ Released
    /\ (eng_last.op = "start" /\ ~eng_last.pre.recording
            /\ eng_last.pre.pyaudio = "None" /\ eng_last.arg = "ok") =>
           /\ eng_last.ret
           /\ recording
           /\ stream = "input"
           /\ pyaudio = "PyAudio"

\* C27 witness: a start of an engine that held a handle has failed to open
\* the stream, and the handle is gone.
C27_Witness ==
    /\ eng_last.op = "start"
    /\ eng_last.arg = "open_fails"
    /\ ~eng_last.ret
    /\ eng_last.pre.pyaudio = "PyAudio"
    /\ eng_last.pre.frames # <<>>
    /\ pyaudio = "None"
    /\ ~recording

(***************************************************************************)
(* Properties of the configuration.                                        *)
(***************************************************************************)
\* C28: once a controller was constructed, the configured bitrate is 64k,
\* 96k or 128k for the audio quality low, medium or high of the latest
\* construction, and an export made since then was given that bitrate.
C28_QualitySetsBitrate ==
    /\ audio_quality = "low" => BITRATE = "64k"
    /\ audio_quality = "medium" => BITRATE = "96k"
    /\ audio_quality = "high" => BITRATE = "128k"
    /\ encoded => encoded_at = BITRATE

\* C28 witness: a recording was encoded after a construction with quality
\* low, and the export was given 64k.
C28_Witness ==
    /\ audio_quality = "low"
    /\ encoded
    /\ encoded_at = "64k"
    /\ \E f \in DOMAIN dir : dir[f].fmt = "mp3"

(***************************************************************************)
(* Properties of the device list.                                          *)
(***************************************************************************)
\* C29: what get_input_devices returns holds exactly the indices of the
\* devices that report one input channel or more, each index once, in
\* ascending order, each with the name of its device.
C29_InputDevicesListed ==
    (device_list.called /\ ~device_list.raised) =>
        LET ret == device_list.ret
        IN  /\ \A i \in 0 .. (Len(devices) - 1) :
                   (devices[i + 1].maxInputChannels >= 1)
                       <=> (\E j \in 1 .. Len(ret) : ret[j].index = i)
            /\ \A j \in 1 .. Len(ret) :
                   /\ ret[j].index \in 0 .. (Len(devices) - 1)
                   /\ ret[j].name = devices[ret[j].index + 1].name
            /\ \A j, k \in 1 .. Len(ret) :
                   (j < k) => (ret[j].index < ret[k].index)

\* C29 witness: of three devices the first and the last have input
\* channels, and the list returned holds these two.
C29_Witness ==
    /\ device_list.called /\ ~device_list.raised
    /\ Len(devices) = 3
    /\ devices[1].maxInputChannels = 1
    /\ devices[2].maxInputChannels = 0
    /\ devices[3].maxInputChannels = 2
    /\ Len(device_list.ret) = 2

(***************************************************************************)
(* Properties of the output directory.                                     *)
(***************************************************************************)
\* C30: every ensure_directory_exists call, the directory being there or
\* not, and after any number of earlier calls, returns without raising and
\* leaves the directory present with the files it held; a call made when the
\* directory is present changes nothing at all in the directory.
C30_EnsureIdempotent ==
    [][(last'.op = "ensure") =>
           /\ last'.ret = NoneValue
           /\ dir_present'
           /\ dir' = dir
           /\ dir_present => UNCHANGED <<dir, dir_present>>]_vars

\* C30 witness: ensure_directory_exists was called on a directory that
\* holds a recording, and the recording is there.
C30_Witness ==
    /\ last.op = "ensure"
    /\ dir_present
    /\ recording_exists(dir, 1)

(***************************************************************************)
(* Properties of the recording list, of the engine's stream and of whole   *)
(* recording attempts.                                                     *)
(***************************************************************************)
\* C31: after any sequence of save, delete and backup calls, the recording
\* list is in strictly ascending order: no slide number is in it twice.
C31_ListStrictlyAscending ==
    LET recordings == get_recording_list(dir)
    IN  \A i, j \in 1 .. Len(recordings) :
            (i < j) => (recordings[i] < recordings[j])

\* C32: a stop made while recording clears the recording flag and returns
\* the WAV blob of exactly the chunks the session has appended since its
\* start, in the order of capture.
C32_StopReturnsSession ==
    (eng_last.op = "stop" /\ eng_last.pre.recording) =>
        /\ ~recording
        /\ eng_last.data = WavBlob(eng_last.pre.frames)

\* C33: between the calls of its methods, an engine that refers to an input
\* stream is recording; and after a stop, a cleanup, a play and a start that
\* raised the engine refers to no stream.
C33_StreamOnlyWhileRecording ==
    /\ stream # "None" => recording
    /\ (eng_last.op \in {"stop", "cleanup", "play"}) => stream = "None"
    /\ (eng_last.op = "start" /\ ~eng_last.ret) => stream = "None"

\* C33 witness: a play call made in a running session that held its input
\* stream has cleared the stream reference.
C33_Witness ==
    /\ eng_last.op = "play"
    /\ eng_last.pre.recording
    /\ eng_last.pre.stream = "input"
    /\ stream = "None"

\* C34: after any sequence of save, delete and backup calls, the slide
\* number that get_next_slide_number gives (the one the main menu records
\* next) has no recording file and no backup file: the save of the new
\* recording writes a path that holds nothing.
C34_NextSlideIsFree ==
    LET next_slide == get_next_slide_number(dir)
    IN  /\ ~recording_exists(dir, next_slide)
        /\ backup_path(next_slide) \notin DOMAIN dir
        /\ ContentOf(dir, get_recording_path(next_slide)) = NoFile

\* C34 witness: the recording of the highest slide was deleted and its
\* backup is still there; the next slide number is above it.
C34_Witness ==
    /\ last.op = "delete"
    /\ last.n = MaxSlide
    /\ ~recording_exists(dir, MaxSlide)
    /\ backup_path(MaxSlide) \in DOMAIN dir
    /\ get_next_slide_number(dir) = MaxSlide + 1

\* The places of a record_slide call before it returns.
InAttempt ==
    pc \in {"rs_status", "rs_start", "rs_test", "rs_chunk", "rs_stop",
            "rs_short", "rs_post"}

\* C35: record_slide returns True exactly when it returns from Save, and
\* False exactly when it returns from a declined retry.  Until it returns
\* the directory is as it was when the attempt began; after a return of
\* False it still is, and after a return of True it differs from that by
\* the one write of the saved clip to the slide's path.
C35_AttemptWritesOnce ==
    /\ [](/\ InAttempt => dir = attempt_dir
          /\ (pc = "rs_return" /\ rs_result = "False") => dir = attempt_dir
          /\ (pc = "rs_return" /\ rs_result = "True") =>
                 dir = WriteFile(attempt_dir, get_recording_path(slide),
                                 convert_to_mp3(clip, encoder_ok)))
    /\ [][/\ Moves("rs_post", "rs_return") => rs_result' = "True"
          /\ Moves("rs_short", "rs_return") => rs_result' = "False"
          /\ (pc # "rs_return" /\ pc' = "rs_return") =>
                 pc \in {"rs_post", "rs_short"}
          /\ (InAttempt /\ dir' # dir) =>
                 (Moves("rs_post", "rs_return") /\ slide' = slide)]_vars

\* C35 witness: a re-recording of a slide has returned True, and the file of
\* the slide holds the new clip in place of the recording it held when the
\* attempt began.
C35_Witness ==
    /\ pc = "rs_return"
    /\ rs_result = "True"
    /\ caller = "revisit"
    /\ recording_exists(attempt_dir, slide)
    /\ dir[get_recording_path(slide)] # attempt_dir[get_recording_path(slide)]

\* C36: a storage call changes at most one file: save and delete of slide n
\* the recording file of n, backup of n the backup file of n.  Every other
\* file (the recordings and backups of the other slides, the backup of n for
\* save and delete, the recording of n for backup) is there or not as
\* before, with the content it had.
C36_OnlyOwnFile ==
    [][(dir' # dir) =>
           LET target == IF last'.op = "backup" THEN backup_path(last'.n)
                         ELSE get_recording_path(last'.n)
           IN  /\ last'.op \in {"save", "delete", "backup"}
               /\ \A f \in ((DOMAIN dir) \cup (DOMAIN dir')) \ {target} :
                      ContentOf(dir', f) = ContentOf(dir, f)]_vars

\* C36 witness: a recording was deleted while its backup and the recording
\* of another slide were in the directory, and both are there.
C36_Witness ==
    /\ last.op = "delete"
    /\ last.ret = RetBool(TRUE)
    /\ backup_path(last.n) \in DOMAIN dir
    /\ \E m \in SlideNumbers : m # last.n /\ recording_exists(dir, m)

\* The chunk identifiers the device can hand out.
ChunkIds == 1 .. (MaxReads + 1)

\* The engine was torn down by a failed read and has not been stopped yet.
TornDown == pc = "rs_stop" /\ pyaudio = "None"

\* C37: when stream.read fails in record_chunk, cleanup() drops the stream and
\* the library handle but leaves the engine recording, with the chunks read so
\* far.  The stop_recording that follows ends the recording and returns b''
\* and 0.0, record_slide goes to its short-recording question, and no chunk
\* read before the failure is ever stored in the directory.
C37_TornSessionIsLost ==
    /\ [][/\ (Moves("rs_chunk", "rs_stop") /\ pyaudio # "None" /\ pyaudio' = "None") =>
                 /\ recording /\ recording'
                 /\ stream' = "None"
                 /\ frames' = frames
          /\ (TornDown /\ pc' # pc) =>
                 /\ recording /\ ~recording'
                 /\ clip' = EmptyBlob
                 /\ duration' = 0
                 /\ pc' = "rs_short"
                 /\ dir' = dir]_vars
    /\ \A c \in ChunkIds :
           []((TornDown /\ c \in ChunksOf(WavBlob(frames))) =>
                  [](c \notin StoredChunks(dir)))

\* C37 witness: a read failed after a chunk had been read, stop_recording
\* returned the empty clip with duration 0, and the retry question is next.
C37_Witness ==
    /\ pc = "rs_short"
    /\ pyaudio = "None"
    /\ ~recording
    /\ frames # <<>>
    /\ clip = EmptyBlob
    /\ duration = 0

(***************************************************************************)
(* The capture loop over a session of any length.  The device hands out    *)
(* MaxReads chunks that the model tells apart; RsChunkBeyond is a          *)
(* record_chunk call that reads a chunk after those: the code appends it   *)
(* to the frames, the model leaves the frames as they are.  The fair       *)
(* variant says that the loop evaluates its condition, that a record_chunk *)
(* call returns, and that time passes while a session runs (a blocking     *)
(* read of CHUNK_SIZE samples takes CHUNK_SIZE / SAMPLE_RATE seconds).     *)
(***************************************************************************)
RsChunkBeyond ==
    /\ pc = "rs_chunk"
    /\ recording
    /\ stream # "None"
    /\ devNext > MaxReads
    /\ pc' = IF record_chunk_result(TRUE) THEN "rs_test" ELSE "rs_stop"
    /\ UNCHANGED <<fmVars, engVars, envVars, cliVars, slide, caller, clip,
                   duration, rs_result, obsVars, procVars>>

NextLoop == NextCapture \/ RsChunkBeyond

SpecLoop == InitCapture /\ [][NextLoop]_vars

SpecLoopFair ==
    /\ SpecLoop
    /\ WF_vars(RsTest)
    /\ WF_vars(RsChunk \/ RsChunkBeyond)
    /\ WF_vars(Tick)

\* C38: a record_chunk call that returns when more than MAX_RECORDING_TIME
\* seconds have passed since the session's start ends the capture loop,
\* whatever the flag says; and every capture loop, with the stop key never
\* pressed or the listener not installed too, comes to stop_recording.
C38_CaptureLoopTerminates ==
    /\ [][(pc = "rs_chunk" /\ pc' # "rs_chunk"
              /\ clock - start_time > MAX_RECORDING_TIME) =>
              pc' = "rs_stop"]_vars
    /\ (InCaptureLoop ~> (pc = "rs_stop"))

\* C38 witness: without a listener, and with no read failure, the loop has
\* ended because the maximum recording time was exceeded.
C38_Witness ==
    /\ pc = "rs_stop"
    /\ ~hooks
    /\ cli_recording
    /\ recording
    /\ stream # "None"
    /\ devNext > MaxReads
    /\ clock - start_time > MAX_RECORDING_TIME

\* C39: while the revisit menu is shown for a slide, the recording file of
\* that slide exists.
C39_RevisitedRecordingExists ==
    (pc = "rv_menu") => recording_exists(dir, slide)

=============================================================================
